---- MODULE Spec2Model ----
(***************************************************************************)
(* The executions indexer of cumulus (a lambda job that copies completed   *)
(* Step Functions executions into elasticsearch, with a "last indexed      *)
(* date" watermark), the exclusive-run lease used by GenerateMrfTask, and   *)
(* the queue of granules returned by getGranulesForCollection.             *)
(*                                                                         *)
(* Time is counted in whole ticks of the wall clock; every date of the     *)
(* program (Date.now(), Date.parse(..)) is a number of ticks.              *)
(***************************************************************************)
EXTENDS Integers, Sequences, FiniteSets, TLC

\* ------------------------------------------------------------------ bounds

\* Largest number of executions a workflow's state machine lists.
MaxRecs == 3
\* The reading of the wall clock in the initial state, and its highest reading.
InitNow == 3
MaxTime == 4
\* Number of requests (listExecutions, bulk, index, putMapping/create) that
\* may fail in one behaviour.
MaxFaults == 2
\* Number of executions listed by the workflow that reaches the cap.
CapRecs == 6
\* Largest granuleId of the first collection of the granules table.
MaxGranules == 3
\* Number of peek() calls made on a queue in one behaviour.
MaxPeeks == 5
\* The number of reports generated in a behaviour.
MaxReports == 3
\* The latest start time of a report.
MaxStart == 2

\* --------------------------------------------------------------- constants

\* listExecutions({ ..., maxResults }): the page size, scaled from 100.
PageSize == 2
\* LAST_INDEXED_THRESHOLD, scaled from 5 * 60 * 1000 ms to ticks.
LAST_INDEXED_THRESHOLD == 1
\* MAX_EXECUTIONS_TO_INDEX, scaled from 50000.
MAX_EXECUTIONS_TO_INDEX == 4

\* LOCK_TIMEOUT_MS, scaled from 20 * 60 * 1000 ms to ticks.
LOCK_TIMEOUT_MS == 1

\* null (getLastIndexedDate without a hit), undefined (stopDate of a RUNNING
\* execution) and a null nextToken.
NoDate == -1
NoToken == 0

\* The number of table records one page fetch of a queue reads.
QueuePageSize == 2
\* The cursor of a queue before its first page and after its last.
NoCursor == 0

Handlers == {"h1", "h2"}
Workflows == {"w1", "w2"}
IndexNames == {"executions", "executions-meta"}

\* The GenerateMrfTask runs, and the transaction keys of their events.
Tasks == {"t1", "t2", "t3"}
Keys == {"k1", "k2"}

\* A handler invocation calls findAndIndexExecutions twice: its cycles.
Cycles == Handlers \X {1, 2}

\* The executions a state machine can list: RUNNING ones have no stopDate.
Kinds ==
  { [status |-> "RUNNING", stopDate |-> NoDate],
    [status |-> "FAILED", stopDate |-> 1],
    [status |-> "SUCCEEDED", stopDate |-> 3] }

\* listExecutions lists most recent first: terminal executions appear in
\* descending order of their stop time.
Descending(s) ==
  \A i, j \in DOMAIN s :
    (i < j /\ s[i].stopDate # NoDate /\ s[j].stopDate # NoDate)
      => s[i].stopDate >= s[j].stopDate

KindSeqs(n) ==
  { s \in UNION { [1..m -> Kinds] : m \in 0..n } : Descending(s) }

\* The executions of workflow w, named by workflow and position.
Executions(w, ks) ==
  [ i \in DOMAIN ks |->
      [ name |-> <<w, i>>, status |-> ks[i].status,
        startDate |-> 0, stopDate |-> ks[i].stopDate ] ]

\* The sources in which every workflow lists at most n executions.
Sources(n) ==
  { [ w \in Workflows |-> Executions(w, f[w]) ] : f \in [Workflows -> KindSeqs(n)] }

VARIABLES
  now,               \* the wall clock, Date.now()
  source,            \* per workflow, the executions listExecutions pages through
  esIndices,         \* the elasticsearch indexes that exist
  esCalls,           \* per cycle, the answer of indices.exists that
                     \* createOrUpdateIndex holds, and the requests made so far
  index,             \* the documents of the executions index
  watermark,         \* last_indexed_date of the executions-meta document
  metaIds,           \* the ids of the documents of the executions-meta index
  cpc,               \* per cycle, where findAndIndexExecutions stands
  lastIndexedDate,   \* per cycle, the local lastIndexedDate
  indexingStartTime, \* per cycle, the local indexingStartTime
  part,              \* per cycle and workflow, the async paging loop
  callback,          \* per handler, the calls of the lambda callback
  faults,            \* requests that failed so far
  firstFetch,        \* per cycle, the clock reading at its first page fetch
  saves,             \* per cycle, the number of saveIndexedDate writes performed
  lease,             \* per key, the lease of the lease store: holder and expiry
  tpc,               \* per task, where its run stands
  transactionKey,    \* per task, this.transactionKey
  acquiredAt,        \* per task, the clock reading when it acquired its lease
  freed,             \* per task, what its release did to the lease store
  granules,          \* the granules table, in the order of its keys
  queue,             \* the queue made by getGranulesForCollection
  qobs,              \* what the consumer of the queue has seen and done
  env,               \* process.env of the report lambdas
  bucket,            \* the keys of the objects of the system bucket
  lastModified,      \* per object of the system bucket, its LastModified
  rpc,               \* per report generation, where it stands and its arguments
  reportKey,         \* per report generation, the key determineReportKey returned
  generated,         \* the keys reports were stored under, in order
  tables,            \* the records of the collections and the providers table
  post,              \* per POST request, where it stands and its response
  testMode           \* what inTestMode() returns

leaseVars == << lease, tpc, transactionKey, acquiredAt, freed >>

queueVars == << granules, queue, qobs >>

apiVars == << tables, post, testMode >>

reportVars == << env, bucket, lastModified, rpc, reportKey, generated >>

vars == << now, source, esIndices, esCalls, index, watermark, metaIds, cpc, lastIndexedDate,
           indexingStartTime, part, callback, faults, firstFetch, saves, leaseVars,
           queueVars, reportVars, apiVars >>

idxVars == << source, esIndices, esCalls, index, watermark, metaIds, cpc, lastIndexedDate,
              indexingStartTime, part, callback, faults, firstFetch, saves >>

\* The concurrent runs of a report lambda.
Generations == {"g1", "g2"}

\* process.env without the settings of the report lambdas.
NoEnv == [ ems_provider |-> "", ems_dataSource |-> "", stackName |-> "",
           ems_submitReport |-> "" ]

\* No key has been determined.
NoKey == << >>

\* A report generation that is not under way.
NoRun(st) == [ st |-> st, reportType |-> "none", reportStartTime |-> 0 ]

\* The POST requests.
Posts == {"p1", "p2", "p3"}

\* The body of no request.
NoData == [ body |-> 0 ]

\* A POST request that is not under way: lookup is what the get of the
\* request reported, res the response sent.
NoPost(st) == [ st |-> st, kind |-> "none", data |-> NoData, lookup |-> "none",
                res |-> "none" ]

\* The id saveIndexedDate indexes its document under.
MetaId == "executionMeta-id"

\* No lease is stored for a key.
NoLease == [ holder |-> "none", expiresAt |-> 0 ]

\* A cycle that has made no request to elasticsearch: exists is the answer of
\* indices.exists that createOrUpdateIndex holds ("none" before it arrives),
\* created and mapped are the indexes for which the cycle requested
\* indices.create and indices.putMapping, searches counts its searches of
\* executions-meta.
NoCalls == [ exists |-> "none", created |-> {}, mapped |-> {}, searches |-> 0 ]

\* A paging loop that has not been started.
\* tokens lists the nextToken of every listExecutions call the loop has made.
NoPart ==
  [ st |-> "none", totalIndexed |-> 0, nextToken |-> NoToken, resp |-> << >>,
    tokens |-> << >> ]

\* No granule.
NoItem == [ collectionId |-> "none", granuleId |-> 0, status |-> "none" ]

\* No queue has been made.
NoQueue ==
  [ collectionId |-> "none", status |-> "any", buffer |-> << >>,
    cursor |-> NoCursor, more |-> FALSE, fetching |-> 0, waiting |-> 0 ]

\* The consumer has called nothing: last is the result of the peek() that
\* resolved last, shifted tells whether shift() was called since, out lists
\* the granules shift() dropped, and the counters count the peek() calls, the
\* resolved ones, the page fetches started and the page fetches that failed.
NoObs ==
  [ last |-> [ kind |-> "none", item |-> NoItem ], shifted |-> FALSE, out |-> << >>,
    calls |-> 0, resolved |-> 0, fetches |-> 0, failures |-> 0 ]

\* ------------------------------------------------------- pure functions

\* Date.parse of a date: the number of ticks; of undefined: NaN (here NoDate).
DateParse(d) == d

\* ToNumber with the clock reading in the place of a null lastIndexedDate.
ToNumber_NullAsNow(d) == IF d = NoDate THEN now ELSE d

\* ToNumber in `lastIndexedDate - LAST_INDEXED_THRESHOLD`: null counts as 0.
ToNumber(d) == IF d = NoDate THEN 0 ELSE d

\* executionBeforeLastIndexed with <= in place of <.
executionBeforeLastIndexed_Inclusive(lastIndexed, e) ==
  /\ DateParse(e.stopDate) # NoDate
  /\ DateParse(e.stopDate) <= ToNumber(lastIndexed) - LAST_INDEXED_THRESHOLD

\* Date.parse(e.stopDate) < lastIndexedDate - LAST_INDEXED_THRESHOLD; a
\* comparison with NaN is false.
executionBeforeLastIndexed(lastIndexed, e) ==
  /\ DateParse(e.stopDate) # NoDate
  /\ DateParse(e.stopDate) < ToNumber(lastIndexed) - LAST_INDEXED_THRESHOLD

\* executionToDoc with elapsed_ms measured up to Date.now() in place of stopDate.
executionToDoc_ElapsedToNow(workflowId, execution) ==
  [ id |-> execution.name,
    workflow_id |-> workflowId,
    start_date |-> DateParse(execution.startDate),
    stop_date |-> DateParse(execution.stopDate),
    elapsed_ms |-> now - DateParse(execution.startDate),
    success |-> (execution.status = "SUCCEEDED") ]

\* The document of an execution; its id is the execution's name.
executionToDoc(workflowId, execution) ==
  [ id |-> execution.name,
    workflow_id |-> workflowId,
    start_date |-> DateParse(execution.startDate),
    stop_date |-> DateParse(execution.stopDate),
    elapsed_ms |-> DateParse(execution.stopDate) - DateParse(execution.startDate),
    success |-> (execution.status = "SUCCEEDED") ]

\* indexExecutions without the filter on status.
NotRunning_Any(e) == TRUE

\* executions.filter(e => e.status !== 'RUNNING')
NotRunning(e) == e.status # "RUNNING"

\* The documents indexExecutions sends for a page: those of the executions
\* that are not RUNNING.
PageDocs(workflowId, executions) ==
  { executionToDoc(workflowId, executions[i]) :
      i \in { j \in DOMAIN executions : NotRunning(executions[j]) } }

\* An elasticsearch bulk of index actions: a document replaces the one with its id.
BulkIndex(idx, docs) ==
  { d \in idx : \A n \in docs : n.id # d.id } \cup docs

Min(a, b) == IF a < b THEN a ELSE b

\* stepFunctions().listExecutions({ stateMachineArn, nextToken, maxResults }):
\* the page that starts after `token` executions, and the token of the next
\* page when there is one.
listExecutions(w, token) ==
  [ executions |-> SubSeq(source[w], token + 1, Min(token + PageSize, Len(source[w]))),
    nextToken |-> IF token + PageSize < Len(source[w]) THEN token + PageSize ELSE NoToken ]

\* resp.executions.filter(e => executionBeforeLastIndexed(lastIndexedDate, e)).length > 0
foundOlderExecutions(lastIndexed, executions) ==
  \E i \in DOMAIN executions : executionBeforeLastIndexed(lastIndexed, executions[i])

\* The stop tests without `if (totalIndexed >= maxIndexExecutions) done = true`.
DoneAfterPage_NoCap(total, resp, lastIndexed, maxIndexExecutions) ==
  \/ resp.nextToken = NoToken
  \/ foundOlderExecutions(lastIndexed, resp.executions)

\* The stop tests without `if (!nextToken) done = true`.
DoneAfterPage_NoTokenTest(total, resp, lastIndexed, maxIndexExecutions) ==
  \/ total >= maxIndexExecutions
  \/ foundOlderExecutions(lastIndexed, resp.executions)

\* The stop tests with the cap test as `totalIndexed > maxIndexExecutions`.
DoneAfterPage_CapExceeded(total, resp, lastIndexed, maxIndexExecutions) ==
  \/ total > maxIndexExecutions
  \/ resp.nextToken = NoToken
  \/ foundOlderExecutions(lastIndexed, resp.executions)

\* The three stop tests after a page that indexed numIndexed > 0 documents.
DoneAfterPage(total, resp, lastIndexed, maxIndexExecutions) ==
  \/ total >= maxIndexExecutions
  \/ resp.nextToken = NoToken
  \/ foundOlderExecutions(lastIndexed, resp.executions)

\* NextToken of a loop that does not take the token of the response.
NextToken_Kept(p) == p.nextToken

\* nextToken = resp.nextToken: the token the loop p goes on with.
NextToken(p) == p.resp.nextToken

\* The paging loop after the bulk of the page in p.resp went through.
AfterPage(p, workflowId, lastIndexed, maxIndexExecutions) ==
  LET numIndexed == Cardinality(PageDocs(workflowId, p.resp.executions))
      total == p.totalIndexed + numIndexed
      done == DoneAfterPage(total, p.resp, lastIndexed, maxIndexExecutions)
  IN [ st |-> IF done THEN "done" ELSE "fetching",
       totalIndexed |-> total,
       nextToken |-> NextToken(p),
       resp |-> << >>,
       tokens |-> IF done THEN p.tokens ELSE Append(p.tokens, NextToken(p)) ]

\* ---------------------------------------------------------------- actions

\* The indexer and the lease store when the handlers hs may be invoked, the
\* source is one of srcs, and the tasks ts may run.
InitIndexerAndLease(hs, srcs, ts) ==
  /\ now = InitNow
  /\ lease = [ k \in Keys |-> NoLease ]
  /\ tpc = [ t \in Tasks |-> IF t \in ts THEN "idle" ELSE "off" ]
  /\ transactionKey \in [ Tasks -> IF ts = {} THEN {"k1"} ELSE Keys ]
  /\ acquiredAt = [ t \in Tasks |-> NoDate ]
  /\ freed = [ t \in Tasks |-> "none" ]
  /\ source \in srcs
  /\ \E fresh \in BOOLEAN :
       /\ esIndices = IF fresh THEN {} ELSE IndexNames
       /\ watermark = IF fresh THEN NoDate ELSE InitNow
       /\ metaIds = IF fresh THEN {} ELSE {MetaId}
  /\ esCalls = [ c \in Cycles |-> NoCalls ]
  /\ index = {}
  /\ cpc = [ c \in Cycles |-> IF c[1] \in hs THEN "notStarted" ELSE "off" ]
  /\ lastIndexedDate = [ c \in Cycles |-> NoDate ]
  /\ indexingStartTime = [ c \in Cycles |-> NoDate ]
  /\ part = [ c \in Cycles |-> [ w \in Workflows |-> NoPart ] ]
  /\ callback = [ h \in Handlers |-> << >> ]
  /\ faults = 0
  /\ firstFetch = [ c \in Cycles |-> NoDate ]
  /\ saves = [ c \in Cycles |-> 0 ]

\* No POST request is made and the tables are empty.
InitNoPosts ==
  /\ tables = [ collection |-> {}, provider |-> {} ]
  /\ post = [ r \in Posts |-> NoPost("off") ]
  /\ testMode = FALSE

\* No report lambda runs and the system bucket holds no report.
InitNoReports ==
  /\ env = NoEnv
  /\ bucket = {}
  /\ lastModified = << >>
  /\ rpc = [ g \in Generations |-> NoRun("off") ]
  /\ reportKey = [ g \in Generations |-> NoKey ]
  /\ generated = << >>

\* The state in which the handlers hs may be invoked, the source is one of
\* srcs, the tasks ts may run, and no queue has been made.
InitWith(hs, srcs, ts) ==
  /\ InitIndexerAndLease(hs, srcs, ts)
  /\ granules = << >>
  /\ queue = NoQueue
  /\ qobs = NoObs
  /\ InitNoReports
  /\ InitNoPosts

\* One invocation of the lambda.
Init == InitWith({"h1"}, Sources(MaxRecs), {})

\* The wall clock advances.
Tick ==
  /\ now < MaxTime
  /\ now' = now + 1
  /\ UNCHANGED << apiVars, reportVars, queueVars, idxVars, leaseVars >>

\* The lambda is invoked: handler calls findAndIndexExecutions, which runs up
\* to its first await.
Invoke(h) ==
  /\ cpc[<<h, 1>>] = "notStarted"
  /\ cpc' = [cpc EXCEPT ![<<h, 1>>] = "ensure1"]
  /\ UNCHANGED << apiVars, reportVars, queueVars, leaseVars, now, source, esIndices, esCalls, index, watermark, metaIds, lastIndexedDate,
                  indexingStartTime, part, callback, faults, firstFetch, saves >>

\* Caught with a catch block that only logs the error.
Caught_Logged(c) ==
  /\ cpc' = [cpc EXCEPT ![c] = "thrown"]
  /\ UNCHANGED callback

\* findAndIndexExecutions throws and handler's catch calls callback(e.message).
Caught(c) ==
  /\ cpc' = [cpc EXCEPT ![c] = "thrown"]
  /\ callback' = [callback EXCEPT ![c[1]] = Append(@, "error")]

\* EnsuredIndex with the two createOrUpdateIndex calls in the other order.
EnsuredIndex_MetaFirst(c) ==
  IF cpc[c] = "ensure1" THEN "executions-meta" ELSE "executions"

\* The index the createOrUpdateIndex call of cycle c is about: executionsIndex
\* in the first call, executionsMetaIndex in the second.
EnsuredIndex(c) == IF cpc[c] = "ensure1" THEN "executions" ELSE "executions-meta"

\* The answer of es().indices.exists({ index: index.name }) arrives in
\* createOrUpdateIndex, or the request rejects.
indicesExists(c) ==
  /\ cpc[c] \in {"ensure1", "ensure2"}
  /\ esCalls[c].exists = "none"
  /\ \/ /\ esCalls' = [esCalls EXCEPT ![c].exists =
                          IF EnsuredIndex(c) \in esIndices THEN "yes" ELSE "no"]
        /\ UNCHANGED << cpc, callback, faults >>
     \/ /\ faults < MaxFaults
        /\ faults' = faults + 1
        /\ Caught(c)
        /\ UNCHANGED esCalls
  /\ UNCHANGED << apiVars, reportVars, queueVars, leaseVars, now, source, esIndices, index, watermark, metaIds,
                  lastIndexedDate, indexingStartTime, part, firstFetch, saves >>

\* verifySuccessfulIndexResponse that accepts every response.
verifySuccessfulIndexResponse_Ignored(c, acknowledged) ==
  /\ cpc' = [cpc EXCEPT ![c] = IF @ = "ensure1" THEN "ensure2" ELSE "getLast"]
  /\ UNCHANGED callback

\* verifySuccessfulIndexResponse(resp): throws unless resp.acknowledged;
\* otherwise createOrUpdateIndex returns and findAndIndexExecutions goes on.
verifySuccessfulIndexResponse(c, acknowledged) ==
  IF acknowledged
  THEN /\ cpc' = [cpc EXCEPT ![c] = IF @ = "ensure1" THEN "ensure2" ELSE "getLast"]
       /\ UNCHANGED callback
  ELSE Caught(c)

\* createOrUpdateIndex after the answer of indices.exists: putMapping when the
\* index exists, create when not.  The response is acknowledged, or it is not
\* (verifySuccessfulIndexResponse throws), or the request rejects; create of an
\* index that exists by now rejects.
createOrUpdateIndex(c) ==
  /\ cpc[c] \in {"ensure1", "ensure2"}
  /\ esCalls[c].exists # "none"
  /\ LET name == EnsuredIndex(c)
         create == esCalls[c].exists = "no"
         called == [esCalls[c] EXCEPT
                      !.exists = "none",
                      !.created = IF create THEN @ \cup {name} ELSE @,
                      !.mapped = IF create THEN @ ELSE @ \cup {name}]
     IN /\ esCalls' = [esCalls EXCEPT ![c] = called]
        /\ IF create /\ name \in esIndices
           THEN /\ Caught(c)
                /\ UNCHANGED << esIndices, faults >>
           ELSE \/ /\ esIndices' = esIndices \cup {name}
                   /\ verifySuccessfulIndexResponse(c, TRUE)
                   /\ UNCHANGED faults
                \/ /\ faults < MaxFaults
                   /\ faults' = faults + 1
                   /\ \E created \in BOOLEAN :
                        esIndices' = IF created THEN esIndices \cup {name} ELSE esIndices
                   /\ \/ verifySuccessfulIndexResponse(c, FALSE)
                      \/ Caught(c)
  /\ UNCHANGED << apiVars, reportVars, queueVars, leaseVars, now, source, index, watermark, metaIds, lastIndexedDate,
                  indexingStartTime, part, firstFetch, saves >>

\* const lastIndexedDate = await getLastIndexedDate();
\* const indexingStartTime = Date.now();
getLastIndexedDate(c) ==
  /\ cpc[c] = "getLast"
  /\ lastIndexedDate' = [lastIndexedDate EXCEPT ![c] = watermark]
  /\ indexingStartTime' = [indexingStartTime EXCEPT ![c] = now]
  /\ esCalls' = [esCalls EXCEPT ![c].searches = @ + 1]
  /\ cpc' = [cpc EXCEPT ![c] = "loadConfig"]
  /\ UNCHANGED << apiVars, reportVars, queueVars, leaseVars, now, source, esIndices, index, watermark, metaIds, part, callback,
                  faults, firstFetch, saves >>

\* await loadCollectionConfig(stackName) returns; workflows.map(async ...) starts
\* one paging loop per workflow, each up to its first listExecutions.
loadCollectionConfig(c) ==
  /\ cpc[c] = "loadConfig"
  /\ part' = [part EXCEPT ![c] =
       [ w \in Workflows |-> [ st |-> "fetching", totalIndexed |-> 0,
                               nextToken |-> NoToken, resp |-> << >>,
                               tokens |-> << NoToken >> ] ]]
  /\ cpc' = [cpc EXCEPT ![c] = "paging"]
  /\ UNCHANGED << apiVars, reportVars, queueVars, leaseVars, now, source, esIndices, esCalls, index, watermark, metaIds, lastIndexedDate,
                  indexingStartTime, callback, faults, firstFetch, saves >>

\* `await Promise.all(promises)` is rejected when the loops are as in ps.
AllRejected(ps) == \E w \in Workflows : ps[w].st = "failed"

\* AllFulfilled with Promise.race in the place of Promise.all: the first loop
\* that returns fulfils the await.
AllFulfilled_Race(ps) == \E w \in Workflows : ps[w].st = "done"

\* AllFulfilled without the await: saveIndexedDate is called as soon as the
\* loops have been started and none has thrown.
AllFulfilled_NoAwait(ps) == TRUE

\* AllFulfilled of a cycle that does not go on when a loop returned at the cap.
AllFulfilled_UnlessCapped(ps) ==
  \A w \in Workflows :
    ps[w].st = "done" /\ ps[w].totalIndexed < MAX_EXECUTIONS_TO_INDEX

\* `await Promise.all(promises)` is fulfilled when the loops are as in ps.
AllFulfilled(ps) == \A w \in Workflows : ps[w].st = "done"

\* Settle with Promise.allSettled in the place of Promise.all: a loop that threw
\* does not reject the await.
Settle_AllSettled(c, ps) ==
  IF cpc[c] = "paging" /\ \A w \in Workflows : ps[w].st \in {"done", "failed"}
  THEN cpc' = [cpc EXCEPT ![c] = "saving"] /\ UNCHANGED callback
  ELSE UNCHANGED << cpc, callback >>

\* What `await Promise.all(promises)` makes of the paging loops ps of cycle c:
\* rejected by the first loop that throws (the handler catches), fulfilled when
\* all have returned (saveIndexedDate is called), pending otherwise.  A cycle
\* that has left the await is not affected any more.
Settle(c, ps) ==
  IF cpc[c] # "paging"
  THEN UNCHANGED << cpc, callback >>
  ELSE IF AllRejected(ps)
  THEN Caught(c)
  ELSE IF AllFulfilled(ps)
  THEN cpc' = [cpc EXCEPT ![c] = "saving"] /\ UNCHANGED callback
  ELSE UNCHANGED << cpc, callback >>

\* The clock reading at the first page fetch of cycle c.
NoteFetch(c) ==
  firstFetch' = [firstFetch EXCEPT ![c] = IF @ = NoDate THEN now ELSE @]

\* A loop that goes on to the records after a page for which indexExecutions
\* returned 0, while the state machine may list more.
AfterEmptyPage_NextPage(p) ==
  IF p.nextToken < MaxRecs
  THEN [p EXCEPT !.st = "fetching", !.nextToken = @ + PageSize,
                 !.tokens = Append(@, p.nextToken + PageSize)]
  ELSE [p EXCEPT !.st = "done"]

\* The paging loop p after indexExecutions returned 0 for its page.
AfterEmptyPage(p) == [p EXCEPT !.st = "done"]

\* A loop that calls listExecutions again after a request of its page failed.
Throws_Retry(p) ==
  [p EXCEPT !.st = "fetching", !.tokens = Append(@, p.nextToken)]

\* The paging loop p after an awaited request rejected or indexExecutions
\* threw: the async function of the loop throws.
Throws(p) == [p EXCEPT !.st = "failed"]

\* LoopStep with totalIndexed declared outside the arrow, one counter for all
\* the loops of a cycle.
LoopStep_SharedCounter(ps, w, p) ==
  [ v \in Workflows |->
      IF v = w THEN p
      ELSE IF ps[v].st \in {"fetching", "indexing"}
      THEN [ps[v] EXCEPT !.totalIndexed = p.totalIndexed]
      ELSE ps[v] ]

\* The loops ps of a cycle after the loop of workflow w took a step to p: id,
\* totalIndexed, done and nextToken are locals of the arrow of one workflow.
LoopStep(ps, w, p) == [ps EXCEPT ![w] = p]

\* AwaitBulk of a loop that tests `if (!nextToken)` before it calls
\* indexExecutions.
AwaitBulk_AfterTokenTest(p, resp) ==
  IF resp.nextToken = NoToken
  THEN [p EXCEPT !.st = "done"]
  ELSE [p EXCEPT !.st = "indexing", !.resp = resp]

\* const numIndexed = await indexExecutions(id, resp.executions), for a page
\* with documents: the loop p awaits the bulk response before any of its stop
\* tests.
AwaitBulk(p, resp) == [p EXCEPT !.st = "indexing", !.resp = resp]

\* A listExecutions response arrives in the loop of workflow w, and
\* indexExecutions runs up to its bulk request (or returns 0 without one).
ListExecutionsReturns(c, w) ==
  /\ part[c][w].st = "fetching"
  /\ LET resp == listExecutions(w, part[c][w].nextToken)
         p == IF PageDocs(w, resp.executions) = {}
              THEN AfterEmptyPage(part[c][w])
              ELSE AwaitBulk(part[c][w], resp)
     IN /\ part' = [part EXCEPT ![c] = LoopStep(@, w, p)]
        /\ Settle(c, part'[c])
  /\ NoteFetch(c)
  /\ UNCHANGED << apiVars, reportVars, queueVars, leaseVars, now, source, esIndices, esCalls, index, watermark, metaIds, lastIndexedDate,
                  indexingStartTime, faults, saves >>

\* A listExecutions request fails: the loop of workflow w throws.
ListExecutionsFails(c, w) ==
  /\ part[c][w].st = "fetching"
  /\ faults < MaxFaults
  /\ faults' = faults + 1
  /\ part' = [part EXCEPT ![c] = LoopStep(@, w, Throws(part[c][w]))]
  /\ Settle(c, part'[c])
  /\ NoteFetch(c)
  /\ UNCHANGED << apiVars, reportVars, queueVars, leaseVars, now, source, esIndices, esCalls, index, watermark, metaIds, lastIndexedDate,
                  indexingStartTime, saves >>

\* The bulk response arrives with errors === false: the loop counts the page
\* and decides whether it is done.
BulkReturns(c, w) ==
  /\ part[c][w].st = "indexing"
  /\ index' = BulkIndex(index, PageDocs(w, part[c][w].resp.executions))
  /\ part' = [part EXCEPT ![c] =
       LoopStep(@, w, AfterPage(part[c][w], w, lastIndexedDate[c],
                                MAX_EXECUTIONS_TO_INDEX))]
  /\ Settle(c, part'[c])
  /\ UNCHANGED << apiVars, reportVars, queueVars, leaseVars, now, source, esIndices, esCalls, watermark, metaIds, lastIndexedDate,
                  indexingStartTime, faults, firstFetch, saves >>

\* The bulk response reports errors: some of the documents may have been
\* written; indexExecutions throws.
BulkFails(c, w) ==
  /\ part[c][w].st = "indexing"
  /\ faults < MaxFaults
  /\ faults' = faults + 1
  /\ \E written \in SUBSET PageDocs(w, part[c][w].resp.executions) :
       /\ written # PageDocs(w, part[c][w].resp.executions)
       /\ index' = BulkIndex(index, written)
  /\ part' = [part EXCEPT ![c] = LoopStep(@, w, Throws(part[c][w]))]
  /\ Settle(c, part'[c])
  /\ UNCHANGED << apiVars, reportVars, queueVars, leaseVars, now, source, esIndices, esCalls, watermark, metaIds, lastIndexedDate,
                  indexingStartTime, firstFetch, saves >>

\* SavedDate read when the cycle ends: saveIndexedDate(Date.now()).
SavedDate_EndTime(c) == now

\* SavedDate as the cutoff of the cycle instead of its start time.
SavedDate_Cutoff(c) == ToNumber(lastIndexedDate[c]) - LAST_INDEXED_THRESHOLD

\* The date saveIndexedDate is called with.
SavedDate(c) == indexingStartTime[c]

\* saveIndexedDate called a second time by the cycle: the first call leaves
\* the cycle where it is.
saveIndexedDate_Again(c) ==
  /\ cpc[c] = "saving"
  /\ watermark' = indexingStartTime[c]
  /\ metaIds' = metaIds \cup {MetaId}
  /\ saves' = [saves EXCEPT ![c] = @ + 1]
  /\ cpc' = [cpc EXCEPT ![c] = IF saves[c] = 0 THEN "saving" ELSE "returned"]
  /\ callback' = IF c[2] = 2 /\ saves[c] > 0
                 THEN [callback EXCEPT ![c[1]] = Append(@, "ok")]
                 ELSE callback
  /\ UNCHANGED << apiVars, reportVars, queueVars, leaseVars, now, source, esIndices, esCalls, index, lastIndexedDate,
                  indexingStartTime, part, faults, firstFetch >>

\* await saveIndexedDate(indexingStartTime) returns, and with it
\* findAndIndexExecutions: the first cycle goes on to sleep, the second to
\* callback(null, ...).
saveIndexedDate(c) ==
  /\ cpc[c] = "saving"
  /\ watermark' = SavedDate(c)
  /\ metaIds' = metaIds \cup {MetaId}
  /\ saves' = [saves EXCEPT ![c] = @ + 1]
  /\ cpc' = [cpc EXCEPT ![c] = "returned"]
  /\ callback' = IF c[2] = 2 THEN [callback EXCEPT ![c[1]] = Append(@, "ok")]
                 ELSE callback
  /\ UNCHANGED << apiVars, reportVars, queueVars, leaseVars, now, source, esIndices, esCalls, index, lastIndexedDate,
                  indexingStartTime, part, faults, firstFetch >>

\* The index request of saveIndexedDate fails, with the document written or
\* not: findAndIndexExecutions throws.
saveIndexedDateFails(c) ==
  /\ cpc[c] = "saving"
  /\ faults < MaxFaults
  /\ faults' = faults + 1
  /\ \E written \in BOOLEAN :
       /\ watermark' = IF written THEN SavedDate(c) ELSE watermark
       /\ metaIds' = IF written THEN metaIds \cup {MetaId} ELSE metaIds
       /\ saves' = [saves EXCEPT ![c] = IF written THEN @ + 1 ELSE @]
  /\ Caught(c)
  /\ UNCHANGED << apiVars, reportVars, queueVars, leaseVars, now, source, esIndices, esCalls, index, lastIndexedDate,
                  indexingStartTime, part, firstFetch >>

\* FirstCycleOver without the await on the first findAndIndexExecutions.
FirstCycleOver_NoAwait(h) == cpc[<<h, 1>>] # "notStarted"

\* handler awaits its first findAndIndexExecutions before it sleeps and calls
\* the second.
FirstCycleOver(h) == cpc[<<h, 1>>] = "returned"

\* await sleep(30000 - elapsed) returns: the second findAndIndexExecutions
\* starts.  The locals of the first call are gone.
sleep(h) ==
  /\ FirstCycleOver(h)
  /\ cpc[<<h, 2>>] = "notStarted"
  /\ cpc' = [cpc EXCEPT ![<<h, 2>>] = "ensure1"]
  /\ part' = [part EXCEPT ![<<h, 1>>] = [ w \in Workflows |-> NoPart ]]
  /\ lastIndexedDate' = [lastIndexedDate EXCEPT ![<<h, 1>>] = NoDate]
  /\ indexingStartTime' = [indexingStartTime EXCEPT ![<<h, 1>>] = NoDate]
  /\ firstFetch' = [firstFetch EXCEPT ![<<h, 1>>] = NoDate]
  /\ saves' = [saves EXCEPT ![<<h, 1>>] = 0]
  /\ esCalls' = [esCalls EXCEPT ![<<h, 1>>] = NoCalls]
  /\ UNCHANGED << apiVars, reportVars, queueVars, leaseVars, now, source, esIndices, index, watermark, metaIds, callback, faults >>

Next ==
  \/ Tick
  \/ \E h \in Handlers : Invoke(h)
  \/ \E c \in Cycles : indicesExists(c)
  \/ \E c \in Cycles : createOrUpdateIndex(c)
  \/ \E c \in Cycles : getLastIndexedDate(c)
  \/ \E c \in Cycles : loadCollectionConfig(c)
  \/ \E c \in Cycles, w \in Workflows : ListExecutionsReturns(c, w)
  \/ \E c \in Cycles, w \in Workflows : ListExecutionsFails(c, w)
  \/ \E c \in Cycles, w \in Workflows : BulkReturns(c, w)
  \/ \E c \in Cycles, w \in Workflows : BulkFails(c, w)
  \/ \E c \in Cycles : saveIndexedDate(c)
  \/ \E c \in Cycles : saveIndexedDateFails(c)
  \/ \E h \in Handlers : sleep(h)

Spec == Init /\ [][Next]_vars

\* The sources in which the first workflow lists CapRecs executions, more than
\* MAX_EXECUTIONS_TO_INDEX, and the second at most one.
SourcesCap ==
  { [ w \in Workflows |-> Executions(w, IF w = "w1" THEN long ELSE short) ] :
      long \in { ks \in KindSeqs(CapRecs) : Len(ks) = CapRecs }, short \in KindSeqs(1) }

\* One invocation of the lambda over a workflow with more executions than the cap.
InitCap == InitWith({"h1"}, SourcesCap, {})

SpecCap == InitCap /\ [][Next]_vars

\* Every request a paging loop awaits is settled in the end: the response
\* arrives or the request fails.
LoopFairness ==
  \A c \in Cycles : \A w \in Workflows :
    /\ WF_vars(ListExecutionsReturns(c, w) \/ ListExecutionsFails(c, w))
    /\ WF_vars(BulkReturns(c, w) \/ BulkFails(c, w))

\* InitCap on a cluster without indexes, the second workflow without
\* executions.
InitCapFair == InitCap /\ source["w2"] = << >> /\ esIndices = {}

\* One invocation over a workflow with more executions than the cap, with
\* awaited requests that are settled in the end.
SpecCapFair == InitCapFair /\ [][Next]_vars /\ LoopFairness

\* Two invocations of the lambda that may overlap, over workflows that list at
\* most one execution each.
InitOverlap == InitWith(Handlers, Sources(1), {})

SpecOverlap == InitOverlap /\ [][Next]_vars

\* ------------------------------------------------- the exclusive-run lease

\* The lease store holds a lease for key that has not expired.
Unexpired(key) == lease[key].holder # "none" /\ now < lease[key].expiresAt

\* tryAcquire(key, holderId, ttl) as a write that leaves a lease in place.
LeaseHeld_Never(key) == FALSE

\* tryAcquire(key, holderId, ttl) fails: an unexpired lease exists for key.
LeaseHeld(key) == Unexpired(key)

\* release(key, holderId) that removes nothing.
Released_Never(key, holderId) == lease

\* release(key, holderId) that removes the lease of the key, whoever holds it.
Released_AnyHolder(key, holderId) == [lease EXCEPT ![key] = NoLease]

\* release(key, holderId): the lease store after the holder's release.
Released(key, holderId) ==
  IF lease[key].holder = holderId THEN [lease EXCEPT ![key] = NoLease] ELSE lease

\* Task.exclusive(key, timeout, fn) up to the call of fn: the lease is acquired
\* and fn starts, or the call ends at once with Busy.
exclusive(t, key, timeout) ==
  /\ tpc[t] = "idle"
  /\ IF LeaseHeld(key)
     THEN /\ tpc' = [tpc EXCEPT ![t] = "busy"]
          /\ UNCHANGED << lease, acquiredAt >>
     ELSE /\ lease' = [lease EXCEPT ![key] = [ holder |-> t, expiresAt |-> now + timeout ]]
          /\ acquiredAt' = [acquiredAt EXCEPT ![t] = now]
          /\ tpc' = [tpc EXCEPT ![t] = "running"]
  /\ UNCHANGED << apiVars, reportVars, queueVars, idxVars, now, transactionKey, freed >>

\* GenerateMrfTask.run with a timeout of 0.
run_NoTimeout(t) == exclusive(t, transactionKey[t], 0)

\* GenerateMrfTask.run with a timeout longer than LOCK_TIMEOUT_MS.
run_LongTimeout(t) == exclusive(t, transactionKey[t], LOCK_TIMEOUT_MS + 1)

\* GenerateMrfTask.run():
\* this.exclusive(this.transactionKey, LOCK_TIMEOUT_MS, this.runExclusive.bind(this))
run(t) == exclusive(t, transactionKey[t], LOCK_TIMEOUT_MS)

\* runExclusive returns or throws, and exclusive releases the lease.
runExclusiveEnds(t) ==
  /\ tpc[t] = "running"
  /\ \E outcome \in {"done", "failed"} : tpc' = [tpc EXCEPT ![t] = outcome]
  /\ lease' = Released(transactionKey[t], t)
  /\ freed' = [freed EXCEPT ![t] = IF lease' = lease THEN "kept" ELSE "removed"]
  /\ UNCHANGED << apiVars, reportVars, queueVars, idxVars, now, transactionKey, acquiredAt >>

\* The process of a running task dies: nothing is released.
crash(t) ==
  /\ tpc[t] = "running"
  /\ tpc' = [tpc EXCEPT ![t] = "crashed"]
  /\ UNCHANGED << apiVars, reportVars, queueVars, idxVars, now, lease, transactionKey, acquiredAt, freed >>

NextLease ==
  \/ Tick
  \/ \E t \in Tasks : run(t)
  \/ \E t \in Tasks : runExclusiveEnds(t)
  \/ \E t \in Tasks : crash(t)

\* The runs of GenerateMrfTask, with no invocation of the indexer.
InitLease == InitWith({}, Sources(0), Tasks)

SpecLease == InitLease /\ [][NextLease]_vars

\* ------------------------------------------------ the queue of granules

Collections == {"c1", "c2"}
Statuses == {"completed", "failed"}

\* The keys of the granules table in their order: collection, then granuleId.
\* The second collection has one granule.
GranuleKeys ==
  [ i \in 1..(MaxGranules + 1) |->
      IF i <= MaxGranules THEN << "c1", i >> ELSE << "c2", 1 >> ]

\* The tables: every key is absent or holds a granule with a status.
GranuleTables ==
  { LET all == [ i \in DOMAIN GranuleKeys |->
                   [ collectionId |-> GranuleKeys[i][1],
                     granuleId |-> GranuleKeys[i][2],
                     status |-> f[i] ] ]
        Present(g) == g.status # "absent"
    IN SelectSeq(all, Present) :
    f \in [ DOMAIN GranuleKeys -> Statuses \cup {"absent"} ] }

\* granule.getGranulesForCollection(collectionId, status): a queue over the
\* granules of the collection, of the status when one is given ("any" when it
\* is undefined); nothing is fetched yet.
getGranulesForCollection(collectionId, status) ==
  [ collectionId |-> collectionId, status |-> status, buffer |-> << >>,
    cursor |-> NoCursor, more |-> TRUE, fetching |-> 0, waiting |-> 0 ]

\* The granules of the collection of queue q, in key order.
Partition(q) ==
  LET InCollection(g) == g.collectionId = q.collectionId
  IN SelectSeq(granules, InCollection)

\* The cursor with which a page that re-reads its last record continues.
NextCursor_Overlap(cursor, n) ==
  IF cursor + QueuePageSize < n THEN cursor + QueuePageSize - 1 ELSE NoCursor

\* nextCursor of the page read at cursor from a partition of n records: absent
\* after the last record.
NextCursor(cursor, n) ==
  IF cursor + QueuePageSize < n THEN cursor + QueuePageSize ELSE NoCursor

\* listPage(partitionKey, cursor, pageSize): the next QueuePageSize records of
\* the partition, of which the ones with the status of the queue are returned.
listPage(q) ==
  LET records == Partition(q)
      read == SubSeq(records, q.cursor + 1, Min(q.cursor + QueuePageSize, Len(records)))
      HasStatus(g) == q.status = "any" \/ g.status = q.status
  IN [ items |-> SelectSeq(read, HasStatus),
       nextCursor |-> NextCursor(q.cursor, Len(records)) ]

\* More pages may exist: the last page came with a cursor.
MorePages(nextCursor) == nextCursor # NoCursor

\* A queue that fetches ahead while one element is left in its buffer.
NeedsFetch_LowWater(q) == Len(q.buffer) <= 1 /\ q.more

\* peek() has to fetch: the buffer is empty and more pages may exist.
NeedsFetch(q) == q.buffer = << >> /\ q.more

\* A queue that does not track its outstanding fetch.
FetchInFlight_Untracked(q) == FALSE

\* A page fetch of the queue is outstanding.
FetchInFlight(q) == q.fetching > 0

\* A peek() that removes the element it returns.
BufferAfterPeek_Consuming(buffer) ==
  IF buffer = << >> THEN buffer ELSE Tail(buffer)

\* The buffer after peek() resolved: peek() removes nothing.
BufferAfterPeek(buffer) == buffer

\* A failed fetch that moves the cursor past the page it did not get.
CursorAfterFailure_Advanced(q) == q.cursor + QueuePageSize

\* The cursor after a failed page fetch: as before the fetch.
CursorAfterFailure(q) == q.cursor

\* A shift() that rewinds a queue with an empty buffer to its first page.
ShiftEmpty_Rewound(q) == [q EXCEPT !.cursor = NoCursor, !.more = TRUE]

\* shift() on an empty buffer: there is no head to drop.
ShiftEmpty(q) == q

\* What peek() resolves with when it has not to fetch: the head of the buffer,
\* or empty.
PeekResult(q) ==
  IF q.buffer # << >>
  THEN [ kind |-> "item", item |-> Head(q.buffer) ]
  ELSE [ kind |-> "empty", item |-> NoItem ]

\* The consumer's record after the pending peek() calls resolved with result.
Resolved(o, result) ==
  [o EXCEPT !.last = result, !.shifted = FALSE, !.resolved = @ + 1]

\* peek() is called: it resolves with the head of the buffer, or with empty
\* when the source is exhausted; with an empty buffer and more pages it waits
\* for a page, starting the fetch unless one is outstanding.
peek ==
  /\ queue.collectionId # "none"
  /\ qobs.calls < MaxPeeks
  /\ IF NeedsFetch(queue)
     THEN /\ queue' = [queue EXCEPT !.waiting = @ + 1,
                                    !.fetching = IF FetchInFlight(queue) THEN @ ELSE @ + 1]
          /\ qobs' = [qobs EXCEPT !.calls = @ + 1,
                                  !.fetches = IF FetchInFlight(queue) THEN @ ELSE @ + 1]
     ELSE /\ queue' = [queue EXCEPT !.buffer = BufferAfterPeek(@)]
          /\ qobs' = [Resolved(qobs, PeekResult(queue)) EXCEPT !.calls = @ + 1]
  /\ UNCHANGED << apiVars, reportVars, idxVars, leaseVars, now, granules >>

\* A page arrives: its items join the buffer and its cursor is kept. A
\* waiting peek() fetches the next page when it still has to, else the waiting
\* calls resolve.
FetchReturns ==
  /\ queue.fetching > 0
  /\ LET page == listPage(queue)
         q == [queue EXCEPT !.buffer = @ \o page.items,
                            !.cursor = page.nextCursor,
                            !.more = MorePages(page.nextCursor)]
     IN IF q.waiting > 0 /\ NeedsFetch(q)
        THEN /\ queue' = q
             /\ qobs' = [qobs EXCEPT !.fetches = @ + 1]
        ELSE /\ queue' = [q EXCEPT !.fetching = @ - 1, !.waiting = 0,
                                   !.buffer = IF q.waiting > 0
                                              THEN BufferAfterPeek(@) ELSE @]
             /\ qobs' = IF q.waiting > 0 THEN Resolved(qobs, PeekResult(q)) ELSE qobs
  /\ UNCHANGED << apiVars, reportVars, idxVars, leaseVars, now, granules >>

\* A page fetch fails: the waiting peek() calls reject with the error.
FetchFails ==
  /\ queue.fetching > 0
  /\ qobs.failures < MaxFaults
  /\ queue' = [queue EXCEPT !.fetching = @ - 1, !.waiting = 0,
                            !.cursor = CursorAfterFailure(queue)]
  /\ qobs' = [Resolved(qobs, [ kind |-> "error", item |-> NoItem ])
                EXCEPT !.failures = @ + 1]
  /\ UNCHANGED << apiVars, reportVars, idxVars, leaseVars, now, granules >>

\* shift() is called: the head of the buffer is dropped.
shift ==
  /\ queue.collectionId # "none"
  /\ IF queue.buffer # << >>
     THEN /\ queue' = [queue EXCEPT !.buffer = Tail(@)]
          /\ qobs' = [qobs EXCEPT !.out = Append(@, Head(queue.buffer)),
                                  !.shifted = TRUE]
     ELSE /\ queue' = ShiftEmpty(queue)
          /\ qobs' = [qobs EXCEPT !.shifted = TRUE]
  /\ UNCHANGED << apiVars, reportVars, idxVars, leaseVars, now, granules >>

NextQueue ==
  \/ peek
  \/ FetchReturns
  \/ FetchFails
  \/ shift

\* A queue made over a granules table, by a consumer that has called nothing.
InitQueue ==
  /\ InitIndexerAndLease({}, Sources(0), {})
  /\ granules \in GranuleTables
  /\ \E collectionId \in Collections : \E status \in Statuses \cup {"any"} :
       queue = getGranulesForCollection(collectionId, status)
  /\ qobs = NoObs
  /\ InitNoReports
  /\ InitNoPosts

SpecQueue == InitQueue /\ [][NextQueue]_vars

\* ------------------------------------------------------------- properties

\* findAndIndexExecutions of cycle c is in progress: called, and neither
\* returned nor thrown.
InProgress(c) ==
  cpc[c] \in {"ensure1", "ensure2", "getLast", "loadConfig", "paging", "saving"}

\* A paging loop of cycle c has thrown.
SomeFailed(c) == \E w \in Workflows : part[c][w].st = "failed"

\* The documents of the terminal executions of page number k (from 0) of workflow w.
DocsOfPage(w, k) == PageDocs(w, listExecutions(w, k * PageSize).executions)

\* C1. No-advance-on-partial-failure: a cycle in which a paging loop failed (its
\* page fetch or its bulk write) performs no watermark write, and the stored
\* watermark is still the one the cycle read when it began.
C1_NoAdvanceOnPartialFailure ==
  \A c \in Cycles :
    SomeFailed(c) => saves[c] = 0 /\ watermark = lastIndexedDate[c]

\* C1 witness: one loop has failed after its sibling returned with documents
\* indexed, with a watermark stored before the cycle.
C1_Witness ==
  \E c \in Cycles : \E w, v \in Workflows :
    /\ part[c][w].st = "failed"
    /\ part[c][v].st = "done" /\ part[c][v].totalIndexed > 0
    /\ watermark # NoDate

\* C2. Per-partition failure isolation: when the cycle has ended by a failed
\* paging loop, every sibling loop has run to its end, and the documents of
\* the pages it fetched are in the index.
C2_SiblingsCompleteAtCycleEnd ==
  \A c \in Cycles :
    (cpc[c] = "thrown" /\ SomeFailed(c)) =>
      \A w \in Workflows :
        /\ part[c][w].st \in {"done", "failed"}
        /\ part[c][w].st = "indexing" =>
             PageDocs(w, part[c][w].resp.executions) \subseteq index

\* The cycle c returned and none of its loops stopped at MAX_EXECUTIONS_TO_INDEX.
ReturnedUncapped(c) ==
  /\ cpc[c] = "returned" /\ saves[c] > 0
  /\ \A w \in Workflows : part[c][w].totalIndexed < MAX_EXECUTIONS_TO_INDEX

\* C3. Cycle completeness: after a cycle that returned with no loop stopped by
\* the cap, every terminal execution of every workflow whose stop time is not
\* before (watermark read by the cycle - threshold) has its document in the index.
C3_CycleCompleteness ==
  \A c \in Cycles :
    ReturnedUncapped(c) =>
      \A w \in Workflows : \A i \in DOMAIN source[w] :
        (NotRunning(source[w][i])
           /\ ~executionBeforeLastIndexed(lastIndexedDate[c], source[w][i]))
          => executionToDoc(w, source[w][i]) \in index

C5_FanInBarrier ==
  /\ [](\A c \in Cycles :
          (cpc[c] = "saving" \/ saves[c] > 0) =>
            \A w \in Workflows : part[c][w].st = "done")
  /\ [][\A c \in Cycles : \A w \in Workflows :
          part'[c][w] # part[c][w] => watermark' = watermark]_vars

\* C5 witness: a cycle has written the watermark after two loops that indexed
\* documents.
C5_Witness ==
  \E c \in Cycles :
    /\ saves[c] > 0
    /\ \A w \in Workflows : part[c][w].st = "done" /\ part[c][w].totalIndexed > 0

\* C6. The watermark written by a cycle is the clock reading taken at the start
\* of the cycle: it is not after the cycle's first page fetch.
C6_WatermarkIsCycleStart ==
  \A c \in Cycles :
    saves[c] > 0 =>
      /\ watermark = indexingStartTime[c]
      /\ firstFetch[c] # NoDate /\ watermark <= firstFetch[c]

\* C6 witness: the watermark written is before the first page fetch of the
\* cycle, and so before the cycle's end.
C6_Witness ==
  \E c \in Cycles : saves[c] > 0 /\ watermark < firstFetch[c] /\ index # {}

Called(t) == tpc[t] = "idle" /\ tpc'[t] # "idle"

\* Tasks t and u are different runs for the same transaction key.
SameKey(t, u) == t # u /\ transactionKey[t] = transactionKey[u]

\* Task u runs its function under a lease granted less than LOCK_TIMEOUT_MS ago.
RunsUnexpired(u) == tpc[u] = "running" /\ now < acquiredAt[u] + LOCK_TIMEOUT_MS

\* C8. Lease exclusivity: two runs for the same key are never both under a lease
\* granted within the same timeout, and a call made while another run for the
\* key holds an unexpired lease gets Busy.
C8_LeaseExclusivity ==
  /\ [](\A t, u \in Tasks :
          (SameKey(t, u) /\ tpc[t] = "running" /\ tpc[u] = "running"
             /\ acquiredAt[t] <= acquiredAt[u])
            => acquiredAt[u] >= acquiredAt[t] + LOCK_TIMEOUT_MS)
  /\ [][\A t, u \in Tasks :
          (SameKey(t, u) /\ Called(t) /\ RunsUnexpired(u)) => tpc'[t] = "busy"]_vars

\* C8 witness: of two runs for one key, one runs its function under an
\* unexpired lease and the other got Busy.
C8_Witness ==
  \E t, u \in Tasks : SameKey(t, u) /\ RunsUnexpired(t) /\ tpc[u] = "busy"

\* C9. Guaranteed release: a run whose function has returned or thrown holds no
\* lease, and a call for a key whose other runs have all ended that way (or
\* never acquired) acquires the lease at once, whatever the clock reads.
C9_GuaranteedRelease ==
  /\ [](\A t \in Tasks :
          tpc[t] \in {"done", "failed"} => lease[transactionKey[t]].holder # t)
  /\ [][\A t \in Tasks :
          (Called(t) /\ \A u \in Tasks :
                          SameKey(t, u) => tpc[u] \in {"idle", "busy", "done", "failed"})
            => tpc'[t] = "running"]_vars

\* C9 witness: a run acquired the lease of a key before the lease of an earlier
\* run, whose function threw, would have expired.
C9_Witness ==
  \E t, u \in Tasks :
    /\ SameKey(t, u)
    /\ tpc[t] = "failed" /\ tpc[u] = "running"
    /\ acquiredAt[u] < acquiredAt[t] + LOCK_TIMEOUT_MS

\* C10. Busy is immediate and has no effect: a call that finds an unexpired
\* lease ends in that step with Busy and changes no lease; a run that got Busy
\* never runs its function and is not retried.
C10_BusyImmediateNoEffect ==
  /\ [][\A t \in Tasks :
          (Called(t) /\ Unexpired(transactionKey[t]))
            => tpc'[t] = "busy" /\ lease' = lease /\ acquiredAt' = acquiredAt]_vars
  /\ [][\A t \in Tasks : tpc[t] = "busy" => tpc'[t] = "busy"]_vars

\* C10 witness: a run got Busy while the holder of the lease is running, and
\* the lease is the holder's.
C10_Witness ==
  \E t, u \in Tasks :
    /\ SameKey(t, u)
    /\ tpc[t] = "busy" /\ acquiredAt[t] = NoDate
    /\ tpc[u] = "running" /\ lease[transactionKey[u]].holder = u
    /\ Unexpired(transactionKey[u])

\* Task u took the lease and has not released it: its function still runs, or
\* its process died.
HoldsUnreleased(u) == tpc[u] \in {"running", "crashed"}

\* C11. Lease expiry and reclaim: while a lease stays with its holder its expiry
\* time does not change and is the grant time plus LOCK_TIMEOUT_MS; a call made
\* when the timeout of every unreleased grant for the key has passed acquires
\* the lease, whether the earlier holder crashed or still runs.
C11_LeaseExpiryAndReclaim ==
  /\ [][\A k \in Keys :
          (lease[k].holder # "none" /\ lease'[k].holder = lease[k].holder)
            => lease'[k].expiresAt = lease[k].expiresAt]_vars
  /\ [](\A k \in Keys :
          lease[k].holder # "none"
            => lease[k].expiresAt = acquiredAt[lease[k].holder] + LOCK_TIMEOUT_MS)
  /\ [][\A t \in Tasks :
          (Called(t) /\ \A u \in Tasks :
                          (SameKey(t, u) /\ HoldsUnreleased(u))
                            => now >= acquiredAt[u] + LOCK_TIMEOUT_MS)
            => tpc'[t] = "running" /\ lease'[transactionKey[t]].holder = t]_vars

\* C11 witness: a run holds the lease of a key, acquired after the timeout of
\* an earlier run for the key whose function is still running.
C11_Witness ==
  \E t, u \in Tasks :
    /\ SameKey(t, u)
    /\ tpc[u] = "running" /\ tpc[t] = "running"
    /\ lease[transactionKey[t]].holder = t
    /\ acquiredAt[t] >= acquiredAt[u] + LOCK_TIMEOUT_MS

\* C12. Idempotent re-indexing: the index never holds two documents with one
\* id, and the second cycle of an invocation, which runs over the source data
\* the first cycle ran over, leaves the index as the first cycle left it.
C12_IdempotentReindexing ==
  /\ [](\A d1, d2 \in index : d1.id = d2.id => d1 = d2)
  /\ [][\A h \in Handlers : InProgress(<<h, 2>>) => index' = index]_vars

\* C12 witness: the second cycle has returned, at a later clock reading than
\* the first began, after a bulk write of documents the first had indexed.
C12_Witness ==
  \E h \in Handlers : \E w \in Workflows :
    /\ cpc[<<h, 2>>] = "returned"
    /\ part[<<h, 2>>][w].totalIndexed > 0
    /\ PageDocs(w, listExecutions(w, NoToken).executions) \subseteq index
    /\ indexingStartTime[<<h, 2>>] > lastIndexedDate[<<h, 2>>]
    /\ lastIndexedDate[<<h, 2>>] # NoDate

\* The stop time of execution e is earlier than (watermark T - threshold); with
\* no watermark stored there is no cutoff.
StopsBeforeCutoff(T, e) ==
  /\ T # NoDate /\ e.stopDate # NoDate
  /\ e.stopDate < T - LAST_INDEXED_THRESHOLD

\* The number of pages of the source of workflow w.
NumPages(w) == (Len(source[w]) + PageSize - 1) \div PageSize

\* The executions of the j-th listExecutions call made by the loop of w in cycle c.
FetchedPage(c, w, j) == listExecutions(w, part[c][w].tokens[j]).executions

\* The source of w is non-empty pages of terminal executions, fewer than the
\* cap in all, none of them older than the cutoff of cycle c.
ExhaustibleSource(c, w) ==
  /\ Len(source[w]) > 0
  /\ Len(source[w]) < MAX_EXECUTIONS_TO_INDEX
  /\ \A i \in DOMAIN source[w] :
       source[w][i].status # "RUNNING"
         /\ ~StopsBeforeCutoff(lastIndexedDate[c], source[w][i])

\* C19. Stop-on-exhaustion: over a source of k non-empty pages of terminal
\* executions, none older than the cutoff and fewer than the cap, a loop never
\* makes more than k listExecutions calls, and when it is done it has made
\* exactly k and its totalIndexed is the number of executions of the source.
C19_StopOnExhaustion ==
  \A c \in Cycles : \A w \in Workflows :
    (ExhaustibleSource(c, w) /\ cpc[c] \in {"paging", "saving", "returned", "thrown"}) =>
      /\ Len(part[c][w].tokens) <= NumPages(w)
      /\ part[c][w].st = "done" =>
           /\ Len(part[c][w].tokens) = NumPages(w)
           /\ part[c][w].totalIndexed = Len(source[w])

\* C19 witness: a loop is done after two pages, the second without a token,
\* in a cycle that read a stored watermark.
C19_Witness ==
  \E c \in Cycles : \E w \in Workflows :
    /\ ExhaustibleSource(c, w) /\ lastIndexedDate[c] # NoDate
    /\ part[c][w].st = "done"
    /\ Len(part[c][w].tokens) = 2 /\ part[c][w].totalIndexed = PageSize + 1

\* C20. Overlap cutoff: a loop makes no listExecutions call after a page with an
\* execution that stopped before (watermark - threshold), also when the page
\* came with a token; and a loop that is done after a page of documents that
\* came with a token, below the cap, fetched such an execution in that page.
C20_OverlapCutoff ==
  \A c \in Cycles : \A w \in Workflows :
    LET p == part[c][w] IN
      /\ \A j \in 1..(Len(p.tokens) - 1) : \A i \in DOMAIN FetchedPage(c, w, j) :
           ~StopsBeforeCutoff(lastIndexedDate[c], FetchedPage(c, w, j)[i])
      /\ (/\ p.st = "done" /\ p.nextToken # NoToken
          /\ p.totalIndexed < MAX_EXECUTIONS_TO_INDEX
          /\ PageDocs(w, FetchedPage(c, w, Len(p.tokens))) # {})
           => \E i \in DOMAIN FetchedPage(c, w, Len(p.tokens)) :
                StopsBeforeCutoff(lastIndexedDate[c], FetchedPage(c, w, Len(p.tokens))[i])

\* C20 witness: a loop is done after its first page, which came with a token
\* and holds an execution older than the cutoff beside one that is not.
C20_Witness ==
  \E c \in Cycles : \E w \in Workflows :
    LET p == part[c][w] IN
      /\ p.st = "done" /\ p.nextToken # NoToken /\ Len(p.tokens) = 1
      /\ p.totalIndexed = 2
      /\ StopsBeforeCutoff(lastIndexedDate[c], source[w][2])
      /\ ~StopsBeforeCutoff(lastIndexedDate[c], source[w][1])

\* The granules the queue was made to enumerate, in key order: those of its
\* collection, of its status when it was given one.
Selected ==
  LET Wanted(g) ==
        /\ g.collectionId = queue.collectionId
        /\ queue.status \in {"any", g.status}
  IN SelectSeq(granules, Wanted)

\* The last peek() returned a granule and shift() was not called since.
Peeked == qobs.last.kind = "item" /\ ~qobs.shifted

\* A peek() call resolves in this step.
PeekResolves == qobs'.resolved > qobs.resolved

\* A page fetch starts in this step.
FetchStarts == qobs'.fetches > qobs.fetches

\* C13. Queue peek stability: a peek() that resolves after a peek() that
\* returned a granule, with no shift() between them, returns that granule; and
\* the granule a peek() returns is the selected granule that follows, in key
\* order, the ones shift() has dropped.
C13_PeekStability ==
  /\ [][(Peeked /\ PeekResolves) => qobs'.last = qobs.last]_vars
  /\ [](Peeked => /\ Len(qobs.out) < Len(Selected)
                  /\ qobs.last.item = Selected[Len(qobs.out) + 1])

\* C13 witness: three peek() calls have resolved, the last two with the second
\* selected granule, after one shift().
C13_Witness ==
  /\ Peeked /\ qobs.resolved = 3 /\ qobs.calls = 3
  /\ Len(qobs.out) = 1
  /\ qobs.last.item = Selected[2]

\* C14. Queue enumeration: the granules dropped by shift() are at every moment
\* the first selected granules in key order, each once; peek() returns a
\* granule only while selected granules are left, and returns empty only when
\* all of them were dropped.
C14_Enumeration ==
  /\ Len(qobs.out) <= Len(Selected)
  /\ qobs.out = SubSeq(Selected, 1, Len(qobs.out))
  /\ Peeked => Len(qobs.out) < Len(Selected)
  /\ qobs.last.kind = "empty" => qobs.out = Selected

\* C14 witness: a status queue over a collection of three granules, one of
\* another status, gave its two granules from two pages, and then empty.
C14_Witness ==
  /\ qobs.last.kind = "empty"
  /\ queue.status # "any"
  /\ Len(Partition(queue)) = 3
  /\ Len(Selected) = 2 /\ qobs.out = Selected
  /\ Selected[2].granuleId = 3
  /\ Len(granules) > Len(Partition(queue))

\* C15. Queue exhaustion is sticky: once peek() returned empty, every later
\* peek() returns empty, whatever peek() and shift() calls follow, no granule
\* is dropped or buffered again and no page is fetched.
C15_ExhaustionSticky ==
  /\ [][qobs.last.kind = "empty" =>
          /\ qobs'.last.kind = "empty"
          /\ qobs'.out = qobs.out
          /\ ~FetchStarts]_vars
  /\ [](qobs.last.kind = "empty" => queue.buffer = << >> /\ queue.fetching = 0)

\* C15 witness: after the last of three granules was dropped, peek() returned
\* empty twice, with a shift() between the two.
C15_Witness ==
  /\ qobs.last.kind = "empty" /\ ~qobs.shifted
  /\ Len(qobs.out) = 3
  /\ qobs.resolved = 5

\* C16. Queue fetch failure is retryable and loses no data: a failed fetch
\* rejects the waiting peek() and leaves buffer, cursor and the more-pages flag
\* as they were; the peek() that follows fetches from that cursor; and after a
\* failure peek() still returns the selected granules in order, and empty only
\* when all were dropped.
C16_FetchFailureRetryable ==
  /\ [][qobs'.failures > qobs.failures =>
          /\ qobs'.last.kind = "error"
          /\ queue'.buffer = queue.buffer
          /\ queue'.cursor = queue.cursor
          /\ queue'.more = queue.more]_vars
  /\ [][(qobs.last.kind = "error" /\ FetchStarts /\ qobs'.calls > qobs.calls)
          => queue'.cursor = queue.cursor /\ queue'.buffer = queue.buffer]_vars
  /\ [](qobs.failures > 0 =>
          /\ Peeked => qobs.last.item = Selected[Len(qobs.out) + 1]
          /\ qobs.last.kind = "empty" => qobs.out = Selected)

\* C16 witness: the fetch of the second page failed, and a later peek()
\* returned the first granule of that page.
C16_Witness ==
  /\ qobs.failures = 1
  /\ Peeked
  /\ Len(qobs.out) = QueuePageSize
  /\ qobs.fetches = 3

\* C17. Queue single outstanding fetch: at most one page fetch of the queue is
\* in flight.
C17_SingleOutstandingFetch == queue.fetching <= 1

\* C17 witness: two peek() calls wait for one page fetch.
C17_Witness == queue.waiting = 2 /\ queue.fetching = 1 /\ qobs.fetches = 1

\* C18. Queue laziness: a page fetch starts only with an empty buffer and a
\* source that may have more pages, for a peek() that is called or waits; a
\* step that drops a granule or is the first shift() after a peek() starts none.
C18_Laziness ==
  /\ [][FetchStarts =>
          /\ queue'.buffer = << >> /\ queue.more /\ queue'.more
          /\ qobs'.calls > qobs.calls \/ queue.waiting > 0]_vars
  /\ [][(Len(qobs'.out) > Len(qobs.out) \/ (~qobs.shifted /\ qobs'.shifted))
          => ~FetchStarts]_vars
  /\ [](~queue.more => queue.fetching = 0)

\* C18 witness: peek() was called three times and shift() once on a buffer of
\* two granules, with more pages to come, and one page was fetched.
C18_Witness ==
  /\ qobs.fetches = 1 /\ qobs.calls = 3 /\ qobs.resolved = 3
  /\ Len(qobs.out) = 1 /\ Len(queue.buffer) = 1
  /\ queue.more

\* Some execution of the page is not RUNNING.
HasTerminal(executions) ==
  \E i \in DOMAIN executions : executions[i].status # "RUNNING"

\* The loop of workflow w in cycle c awaits the listExecutions response of a
\* page without a terminal execution.
AwaitsEmptyPage(c, w) ==
  /\ part[c][w].st = "fetching"
  /\ ~HasTerminal(FetchedPage(c, w, Len(part[c][w].tokens)))

\* C21. Empty filtered page stops paging: every page a loop fetched before its
\* latest one had a terminal execution, a bulk request is awaited only for a
\* page with a terminal execution, and the step in which a loop receives a
\* page without one ends the loop, with no token passed on and no index write.
C21_EmptyPageStops ==
  /\ [](\A c \in Cycles : \A w \in Workflows :
          /\ \A j \in 1..(Len(part[c][w].tokens) - 1) : HasTerminal(FetchedPage(c, w, j))
          /\ part[c][w].st = "indexing" => HasTerminal(part[c][w].resp.executions))
  /\ [][\A c \in Cycles : \A w \in Workflows :
          (AwaitsEmptyPage(c, w) /\ part'[c][w] # part[c][w])
            => /\ part'[c][w].st \in {"done", "failed"}
               /\ part'[c][w].tokens = part[c][w].tokens
               /\ part'[c][w].totalIndexed = part[c][w].totalIndexed
               /\ index' = index]_vars

\* C21 witness: a loop is done after one page of RUNNING executions that came
\* with a token, with nothing indexed and a terminal execution left unfetched.
C21_Witness ==
  \E c \in Cycles : \E w \in Workflows :
    /\ part[c][w].st = "done" /\ part[c][w].tokens = << NoToken >>
    /\ part[c][w].totalIndexed = 0
    /\ listExecutions(w, NoToken).nextToken # NoToken
    /\ ~HasTerminal(listExecutions(w, NoToken).executions)
    /\ HasTerminal(source[w])
    /\ \A d \in index : d.workflow_id # w

\* C22. Safety cap: a loop that awaits a page or a bulk response has indexed
\* fewer than MAX_EXECUTIONS_TO_INDEX documents, and a loop whose totalIndexed
\* has reached MAX_EXECUTIONS_TO_INDEX makes no listExecutions call.
C22_SafetyCap ==
  /\ [](\A c \in Cycles : \A w \in Workflows :
          part[c][w].st \in {"fetching", "indexing"}
            => part[c][w].totalIndexed < MAX_EXECUTIONS_TO_INDEX)
  /\ [][\A c \in Cycles : \A w \in Workflows :
          part[c][w].totalIndexed >= MAX_EXECUTIONS_TO_INDEX
            => Len(part'[c][w].tokens) <= Len(part[c][w].tokens)]_vars

\* C22 witness: a loop is done with MAX_EXECUTIONS_TO_INDEX documents indexed,
\* after a page that came with a token, in a cycle that read a watermark and
\* fetched no execution older than its cutoff.
C22_Witness ==
  \E c \in Cycles : \E w \in Workflows :
    /\ part[c][w].st = "done" /\ part[c][w].nextToken # NoToken
    /\ part[c][w].totalIndexed = MAX_EXECUTIONS_TO_INDEX
    /\ lastIndexedDate[c] # NoDate
    /\ \A j \in DOMAIN part[c][w].tokens : \A i \in DOMAIN FetchedPage(c, w, j) :
         ~StopsBeforeCutoff(lastIndexedDate[c], FetchedPage(c, w, j)[i])

\* The number of executions of w's source that lie on the pages the loop p has
\* counted: all it fetched when it is done, all but the latest otherwise.
CountedRecords(w, p) ==
  IF p.st = "done"
  THEN Min(p.tokens[Len(p.tokens)] + PageSize, Len(source[w]))
  ELSE p.tokens[Len(p.tokens)]

\* C23. Only terminal records are indexed: every document of the index has the
\* name, workflow and stop time of a source execution that is not RUNNING, and
\* totalIndexed of a loop is the number of executions that are not RUNNING on
\* the pages it has counted.
C23_OnlyTerminalIndexed ==
  /\ \A d \in index :
       /\ d.id[1] \in Workflows /\ d.id[2] \in DOMAIN source[d.id[1]]
       /\ source[d.id[1]][d.id[2]].status # "RUNNING"
       /\ d.workflow_id = d.id[1]
       /\ d.stop_date = source[d.id[1]][d.id[2]].stopDate
  /\ \A c \in Cycles : \A w \in Workflows :
       part[c][w].st # "none" =>
         part[c][w].totalIndexed =
           Cardinality({ i \in 1..CountedRecords(w, part[c][w]) :
                           source[w][i].status # "RUNNING" })

\* C23 witness: a loop is done after a page with a RUNNING execution followed
\* by a terminal one, of which only the second is counted and indexed.
C23_Witness ==
  \E c \in Cycles : \E w \in Workflows :
    /\ part[c][w].st = "done" /\ part[c][w].totalIndexed = 1
    /\ Len(source[w]) >= 2
    /\ source[w][1].status = "RUNNING" /\ source[w][2].status # "RUNNING"
    /\ \E d \in index : d.id = source[w][2].name
    /\ \A d \in index : d.id # source[w][1].name

\* C24. A partition's failure ends that partition for the cycle: the step in
\* which a page fetch or a bulk write of a loop fails leaves the loop failed,
\* with totalIndexed and the listExecutions calls made as they were; a failed
\* loop never changes again; and the index is written only in a step of a
\* loop that awaits a bulk response.
C24_FailureEndsPartition ==
  /\ [][\A c \in Cycles : \A w \in Workflows :
          (faults' > faults /\ part'[c][w] # part[c][w])
            => /\ part'[c][w].st = "failed"
               /\ part'[c][w].totalIndexed = part[c][w].totalIndexed
               /\ part'[c][w].tokens = part[c][w].tokens]_vars
  /\ [][\A c \in Cycles : \A w \in Workflows :
          part[c][w].st = "failed" => part'[c][w] = part[c][w]]_vars
  /\ [][index' # index =>
          \E c \in Cycles : \E w \in Workflows :
            part[c][w].st = "indexing" /\ part'[c][w].st \in {"fetching", "done", "failed"}]_vars

\* C24 witness: in a first cycle a loop failed at the bulk write of its first
\* page, of which some document was written; the page is not counted and the
\* cycle has ended with an error.
C24_Witness ==
  \E h \in Handlers : \E w \in Workflows :
    /\ part[<<h, 1>>][w].st = "failed" /\ part[<<h, 1>>][w].totalIndexed = 0
    /\ part[<<h, 1>>][w].tokens = << NoToken >>
    /\ \E d \in index : d.workflow_id = w
    /\ cpc[<<h, 1>>] = "thrown"

\* findAndIndexExecutions of cycle c threw before it searched for the
\* watermark: in one of its createOrUpdateIndex calls.
EnsureFailed(c) == cpc[c] = "thrown" /\ esCalls[c].searches = 0

\* C25. Schema provisioning failure is cycle-fatal: a request of
\* createOrUpdateIndex that rejects or is not acknowledged makes the cycle
\* throw in that step, and handler calls back with the error; the cycle has
\* read no watermark, started no loop and written no watermark, it never
\* moves again, and neither the index nor the watermark changes afterwards.
C25_SchemaFailureFatal ==
  /\ [][\A c \in Cycles :
          (cpc[c] \in {"ensure1", "ensure2"} /\ faults' > faults)
            => /\ cpc'[c] = "thrown"
               /\ callback'[c[1]] = Append(callback[c[1]], "error")]_vars
  /\ [](\A c \in Cycles :
          EnsureFailed(c) =>
            /\ lastIndexedDate[c] = NoDate /\ indexingStartTime[c] = NoDate
            /\ \A w \in Workflows : part[c][w] = NoPart
            /\ firstFetch[c] = NoDate /\ saves[c] = 0
            /\ callback[c[1]] = << "error" >>)
  /\ [][(\E c \in Cycles : EnsureFailed(c))
          => /\ cpc' = cpc /\ part' = part /\ esCalls' = esCalls
             /\ index' = index /\ watermark' = watermark]_vars

\* C25 witness: the second cycle threw when the mapping update of
\* executions-meta failed, after the first cycle indexed documents and wrote
\* the watermark, which is as the first cycle left it.
C25_Witness ==
  \E h \in Handlers :
    /\ EnsureFailed(<<h, 2>>)
    /\ esCalls[<<h, 2>>].mapped = IndexNames
    /\ callback[h] = << "error" >>
    /\ index # {} /\ watermark # NoDate
    /\ now > watermark

\* ---------------------------------------------------------------------------
\* Results of a cycle (part_000 219-277, 292-318)

\* The value a JavaScript function body that ends without a return statement
\* resolves to; it is no count.
Undefined == -2

\* The value the paging loop of one workflow resolves to: the async arrow
\* passed to workflows.map ends after its while loop without a return
\* statement, so the local totalIndexed is only logged.
LoopResult(p) == Undefined

\* C26 (refuted): the paging loop of a partition that has finished returns its
\* totalIndexed count (and the cycle result lists it).
C26_CycleResult ==
  \A c \in Cycles : \A w \in Workflows :
    part[c][w].st = "done" => LoopResult(part[c][w]) = part[c][w].totalIndexed

\* ---------------------------------------------------------------------------
\* Termination in the middle of a cycle (part_000 273-276)

\* Some paging loop of cycle c has neither returned nor thrown.
Unfinished(c) == \E w \in Workflows : part[c][w].st \in {"fetching", "indexing"}

\* Cycle c has started and has not yet started its paging loops.
BeforeLoops(c) == cpc[c] \in {"ensure1", "ensure2", "getLast", "loadConfig"}

\* C27: a process that is terminated stops at the state it is in.  At every
\* state of a cycle in which some partition has not finished, the stored
\* watermark is the value the cycle read at its start and the cycle has written
\* none, whatever is in the index; and no step taken from a state in which the
\* cycle has not started its loops or some partition has not finished changes
\* the stored watermark.
C27_CancellationSafety ==
  /\ [](\A c \in Cycles :
          Unfinished(c) => watermark = lastIndexedDate[c] /\ saves[c] = 0)
  /\ [][\A c \in Cycles :
          (BeforeLoops(c) \/ Unfinished(c)) => watermark' = watermark]_vars

\* C27 witness: in the second cycle one loop has returned with documents
\* written to the index and the other still awaits a response; the stored
\* watermark is the one the first cycle wrote.
C27_Witness ==
  \E h \in Handlers : \E w, v \in Workflows :
    /\ cpc[<<h, 2>>] = "paging"
    /\ part[<<h, 2>>][w].st = "done" /\ part[<<h, 2>>][w].totalIndexed > 0
    /\ part[<<h, 2>>][v].st \in {"fetching", "indexing"}
    /\ \E d \in index : d.workflow_id = w
    /\ watermark = lastIndexedDate[<<h, 2>>] /\ watermark # NoDate

\* ---------------------------------------------------------------------------
\* Reads and writes of the watermark (part_000 149-174, 219-277)

\* Cycle c holds a local lastIndexedDate: from the return of
\* getLastIndexedDate to the return of findAndIndexExecutions.
HoldsLastIndexed(c) == cpc[c] \in {"loadConfig", "paging", "saving"}

\* Some paging loop of cycle c has been started.
LoopsStarted(c) == \E w \in Workflows : part[c][w] # NoPart

\* C28: a cycle searches the watermark once, before any of its page fetches,
\* and the value it got stays the one local value its loops decide their
\* cutoff with; the cycle writes the watermark at most once, when all its loops
\* have returned, and does nothing after the write but return; the
\* executions-meta index never holds more than one document.
C28_WatermarkAccessPattern ==
  /\ [](\A c \in Cycles :
          /\ esCalls[c].searches <= 1 /\ saves[c] <= 1
          /\ (HoldsLastIndexed(c) \/ LoopsStarted(c)) => esCalls[c].searches = 1
          /\ esCalls[c].searches = 0 => firstFetch[c] = NoDate /\ saves[c] = 0
          /\ saves[c] > 0 =>
               /\ cpc[c] \in {"returned", "thrown"}
               /\ \A w \in Workflows : part[c][w].st = "done")
  /\ [](Cardinality(metaIds) <= 1)
  /\ [][\A c \in Cycles :
          /\ HoldsLastIndexed(c) => lastIndexedDate'[c] = lastIndexedDate[c]
          /\ esCalls'[c].searches > esCalls[c].searches =>
               /\ lastIndexedDate'[c] = watermark
               /\ \A w \in Workflows : part[c][w] = NoPart
          /\ saves'[c] > saves[c] =>
               /\ cpc[c] = "saving" /\ cpc'[c] \in {"returned", "thrown"}
               /\ \A w \in Workflows : part[c][w].st = "done"]_vars

\* C28 witness: the second cycle has read the watermark the first cycle wrote,
\* paged both workflows with it and written its own, and one document is in
\* executions-meta.
C28_Witness ==
  \E h \in Handlers :
    /\ cpc[<<h, 2>>] = "returned"
    /\ esCalls[<<h, 2>>].searches = 1 /\ saves[<<h, 2>>] = 1
    /\ lastIndexedDate[<<h, 2>>] # NoDate
    /\ watermark = indexingStartTime[<<h, 2>>]
    /\ \E w \in Workflows : part[<<h, 2>>][w].totalIndexed > 0
    /\ metaIds = {MetaId}

\* ---------------------------------------------------------------------------
\* EMS report keys (packages/api/lib/ems.js)

\* Clock readings per UTC day: start times of one day format to one
\* YYYYMMDD string.
DayLength == 2

\* The report types and start times reports are generated for.
ReportTypes == {"ingest", "distribution"}
StartTimes == 0 .. MaxStart

\* The S3 prefix where the reports are located.
ReportsPrefix == << "ems" >>

\* a || b of two strings.
OrElse(a, b) == IF a # "" THEN a ELSE b

\* reportToFileType(reportType)
reportToFileType(reportType) ==
  CASE reportType = "ingest" -> "Ing"
    [] reportType = "archive" -> "Arch"
    [] reportType = "delete" -> "ArchDel"
    [] reportType = "distribution" -> "DistCustom"
    [] reportType = "metadata" -> "Meta"

\* moment.utc(startTime).format('YYYYMMDD')
DateString(startTime) == ToString(startTime \div DayLength)

\* buildReportFileName(reportType, startTime): a string is the sequence of its
\* parts.
buildReportFileName(reportType, startTime) ==
  LET provider == OrElse(env.ems_provider, "cumulus")
      dataSource == OrElse(env.ems_dataSource, env.stackName)
      datestring == DateString(startTime)
      fileType == reportToFileType(reportType)
  IN << datestring, "_", provider, "_", fileType, "_", dataSource, ".flt" >>

\* aws.s3Join([prefix, name])
s3Join(prefix, name) == prefix \o << "/" >> \o name

\* key.startsWith(prefix)
StartsWith(key, prefix) ==
  /\ Len(prefix) <= Len(key)
  /\ SubSeq(key, 1, Len(prefix)) = prefix

\* aws.listS3ObjectsV2({ Bucket, Prefix }): the objects whose keys start with
\* the prefix.
listS3ObjectsV2(prefix) == { k \in bucket : StartsWith(k, prefix) }

\* RevisedName with the suffix appended for every revision number.
RevisedName_AlwaysSuffixed(reportName, revisionNumber) ==
  reportName \o << ".rev", ToString(revisionNumber) >>

\* if (revisionNumber > 0) reportName = `${reportName}.rev${revisionNumber}`
RevisedName(reportName, revisionNumber) ==
  IF revisionNumber > 0
  THEN reportName \o << ".rev", ToString(revisionNumber) >>
  ELSE reportName

\* What determineReportKey(reportType, reportStartTime, reportsPrefix) returns
\* when the listing is the one of the bucket as it is.
ReportKey(reportType, reportStartTime, reportsPrefix) ==
  LET reportName == buildReportFileName(reportType, reportStartTime)
      revisionNumber ==
        Cardinality(listS3ObjectsV2(s3Join(reportsPrefix, reportName)))
  IN s3Join(reportsPrefix, RevisedName(reportName, revisionNumber))

\* The number of report generations begun and not yet stored.
Determined == Cardinality({ g \in Generations : rpc[g].st = "determined" })

\* The LastModified of the objects after an object is written under key.
Written(key) ==
  [ k \in bucket \cup {key} |-> IF k = key THEN now ELSE lastModified[k] ]

\* A report lambda calls determineReportKey, which lists and returns.
determineReportKey(g, reportType, reportStartTime) ==
  /\ rpc[g].st = "idle"
  /\ Len(generated) + Determined < MaxReports
  /\ reportKey' = [reportKey EXCEPT ![g] =
       ReportKey(reportType, reportStartTime, ReportsPrefix)]
  /\ rpc' = [rpc EXCEPT ![g] = [ st |-> "determined", reportType |-> reportType,
                                 reportStartTime |-> reportStartTime ]]
  /\ UNCHANGED << apiVars, env, bucket, lastModified, generated, idxVars, leaseVars, queueVars, now >>

\* The report lambda puts its report under the key it was given.
putReport(g) ==
  /\ rpc[g].st = "determined"
  /\ bucket' = bucket \cup {reportKey[g]}
  /\ lastModified' = Written(reportKey[g])
  /\ generated' = Append(generated, reportKey[g])
  /\ rpc' = [rpc EXCEPT ![g] = NoRun("idle")]
  /\ reportKey' = [reportKey EXCEPT ![g] = NoKey]
  /\ UNCHANGED << apiVars, env, idxVars, leaseVars, queueVars, now >>

\* The position of the last "/" of a key.
LastSlash(key) ==
  CHOOSE i \in 1 .. Len(key) :
    key[i] = "/" /\ \A j \in (i + 1) .. Len(key) : key[j] # "/"

\* path.join(keyfields.join('/'), 'sent', fileName)
SentKey(key) ==
  SubSeq(key, 1, LastSlash(key)) \o << "sent", "/" >>
    \o SubSeq(key, LastSlash(key) + 1, Len(key))

\* submitReports sends one generated report and copies it to the sent folder;
\* the file stays at its original location.
submitReports(i) ==
  /\ env.ems_submitReport = "true"
  /\ i \in 1 .. Len(generated)
  /\ generated[i] \in bucket
  /\ bucket' = bucket \cup {SentKey(generated[i])}
  /\ lastModified' = Written(SentKey(generated[i]))
  /\ UNCHANGED << apiVars, env, rpc, reportKey, generated, idxVars, leaseVars, queueVars, now >>

NextReport ==
  \/ \E g \in Generations : \E reportType \in ReportTypes :
       \E reportStartTime \in StartTimes :
         determineReportKey(g, reportType, reportStartTime)
  \/ \E g \in Generations : putReport(g)
  \/ \E i \in 1 .. MaxReports : submitReports(i)

\* The i-th key of a report: its base name for i = 0, the base name with the
\* suffix .rev<i> for i > 0.
Revision(reportType, startTime, i) ==
  s3Join(ReportsPrefix,
         buildReportFileName(reportType, startTime)
           \o (IF i = 0 THEN << >> ELSE << ".rev", ToString(i) >>))

\* The report lambdas gs may run; the bucket holds the reports of earlier
\* generations of the distribution report of the first day, each written one
\* clock reading after the one before.
InitReport(gs) ==
  /\ InitIndexerAndLease({}, Sources(0), {})
  /\ granules = << >>
  /\ queue = NoQueue
  /\ qobs = NoObs
  /\ env \in [ ems_provider : {"", "p1"}, ems_dataSource : {""},
               stackName : {"stack"}, ems_submitReport : {"true", "false"} ]
  /\ \E n \in 0 .. 2 :
       /\ bucket = { Revision("distribution", 0, i) : i \in 0 .. (n - 1) }
       /\ lastModified = [ k \in bucket |->
            CHOOSE t \in 1 .. n : k = Revision("distribution", 0, t - 1) ]
  /\ rpc = [ g \in Generations |-> IF g \in gs THEN NoRun("idle") ELSE NoRun("off") ]
  /\ reportKey = [ g \in Generations |-> NoKey ]
  /\ generated = << >>
  /\ InitNoPosts

\* Reports are generated one after the other.
SpecReport == InitReport({"g1"}) /\ [][NextReport]_vars

\* The objects of the bucket that are the base name or a revision of the
\* report of the type and the day of startTime.
ReportsOf(reportType, startTime) ==
  bucket \cap { Revision(reportType, startTime, i) : i \in 0 .. (MaxReports + 2) }

\* C29: determineReportKey called for a report of which n objects exist (the
\* same type, provider, data source and start day) returns the base name for
\* n = 0 and the base name with suffix .rev<n> for n > 0; reports generated
\* one after the other are stored as base, .rev1, .rev2, ...: each under a
\* key that is not in the bucket, the revisions in the bucket having no gap.
C29_ReportRevisionKey ==
  /\ [][\A g \in Generations :
          (rpc[g].st = "idle" /\ rpc'[g].st = "determined") =>
            reportKey'[g] =
              Revision(rpc'[g].reportType, rpc'[g].reportStartTime,
                Cardinality(ReportsOf(rpc'[g].reportType, rpc'[g].reportStartTime)))]_vars
  /\ [][\A g \in Generations :
          (rpc[g].st = "determined" /\ rpc'[g].st = "idle") =>
            /\ reportKey[g] \notin bucket
            /\ generated' = Append(generated, reportKey[g])
            /\ reportKey[g] =
                 Revision(rpc[g].reportType, rpc[g].reportStartTime,
                   Cardinality(ReportsOf(rpc[g].reportType, rpc[g].reportStartTime)))]_vars
  /\ [](\A reportType \in ReportTypes : \A startTime \in StartTimes :
          ReportsOf(reportType, startTime) =
            { Revision(reportType, startTime, i) :
                i \in 0 .. (Cardinality(ReportsOf(reportType, startTime)) - 1) })

\* C29 witness: three generations of the distribution report of the first
\* day, one sent in between, were stored as base, .rev1 and .rev2.
C29_Witness ==
  /\ generated = << Revision("distribution", 0, 0), Revision("distribution", 1, 1),
                    Revision("distribution", 0, 2) >>
  /\ SentKey(generated[1]) \in bucket
  /\ rpc["g1"].st = "idle"

\* ---------------------------------------------------------------------------
\* Ensuring the indexes (part_000 86-109, 219-223)

\* The indexes cycle c has issued a create or a mapping update for.
Ensured(c) == esCalls[c].created \cup esCalls[c].mapped

\* C30: a cycle issues a create for an index only when the index does not
\* exist and a mapping update only when it exists, never both for one index,
\* and no index is ever deleted; executions-meta is ensured after executions,
\* and both are ensured and exist when the cycle searches the watermark,
\* starts its loops (which write the index) or writes the watermark.
C30_SchemaEnsure ==
  /\ [][\A c \in Cycles : \A name \in IndexNames :
          /\ (name \in esCalls'[c].created /\ name \notin esCalls[c].created)
               => name \notin esIndices
          /\ (name \in esCalls'[c].mapped /\ name \notin esCalls[c].mapped)
               => name \in esIndices]_vars
  /\ [][esIndices \subseteq esIndices' /\ (index' # index => IndexNames \subseteq esIndices)]_vars
  /\ [](\A c \in Cycles :
          /\ esCalls[c].created \cap esCalls[c].mapped = {}
          /\ "executions-meta" \in Ensured(c) => "executions" \in Ensured(c)
          /\ (esCalls[c].searches > 0 \/ saves[c] > 0
                \/ \E w \in Workflows : part[c][w] # NoPart)
               => Ensured(c) = IndexNames /\ IndexNames \subseteq esIndices)

\* C30 witness: on a cluster without indexes the first cycle created both
\* indexes, then read the watermark and wrote documents to the index.
C30_Witness ==
  \E h \in Handlers :
    /\ esCalls[<<h, 1>>].created = IndexNames
    /\ esCalls[<<h, 1>>].mapped = {}
    /\ esCalls[<<h, 1>>].searches = 1
    /\ \E w \in Workflows : part[<<h, 1>>][w].totalIndexed > 0
    /\ index # {}

\* ---------------------------------------------------------------------------
\* The nextToken of a paging loop (part_000 232-256)

\* C31: the first listExecutions call of a loop is made without a token, also
\* in the second cycle; every later call is made with the nextToken of the
\* response to the call before it of the same workflow, which is a token; no
\* token is used for two calls; and the page a loop awaits or indexes is the
\* one of the token of its latest call.
C31_CursorPassThrough ==
  \A c \in Cycles : \A w \in Workflows :
    LET t == part[c][w].tokens IN
      /\ part[c][w] # NoPart => Len(t) >= 1 /\ t[1] = NoToken
      /\ \A j \in 2 .. Len(t) :
           t[j] = listExecutions(w, t[j - 1]).nextToken /\ t[j] # NoToken
      /\ \A i, j \in DOMAIN t : i # j => t[i] # t[j]
      /\ part[c][w].st = "fetching" => part[c][w].nextToken = t[Len(t)]
      /\ part[c][w].st = "indexing" => part[c][w].resp = listExecutions(w, t[Len(t)])

\* C31 witness: in the second cycle, whose first cycle paged the same
\* workflows, one loop made its second call with the token of its first page
\* while the loop of the other workflow, whose source is another, made its
\* first call without a token.
C31_Witness ==
  \E h \in Handlers : \E w, v \in Workflows :
    /\ part[<<h, 2>>][w].tokens = << NoToken, PageSize >>
    /\ part[<<h, 2>>][w].st = "fetching"
    /\ part[<<h, 2>>][v].tokens = << NoToken >>
    /\ source[w] # source[v]

\* ---------------------------------------------------------------------------
\* The loops of one cycle (part_000 229-272)

\* The loop of workflow w in cycle c takes a step: a response arrives, a
\* request fails, or the loop decides to stop.
LoopSteps(c, w) ==
  /\ part[c][w].st \in {"fetching", "indexing"}
  /\ part'[c][w] # part[c][w]

\* C32: a step of the loop of one workflow leaves the nextToken, totalIndexed,
\* done state and fetch history of every other loop as they are, and the
\* cycle's lastIndexedDate and indexingStartTime too, whatever the order of
\* the steps of the loops; of each step, only one loop takes it.
C32_PartitionIndependence ==
  [][\A c \in Cycles : \A w \in Workflows :
       LoopSteps(c, w) =>
         /\ \A v \in Workflows \ {w} : part'[c][v] = part[c][v]
         /\ \A d \in Cycles \ {c} : part'[d] = part[d]
         /\ lastIndexedDate' = lastIndexedDate
         /\ indexingStartTime' = indexingStartTime
         /\ watermark' = watermark]_vars

\* C32 witness: both loops of a cycle have counted a page, one is done and
\* the other has gone on to its next page with its own count and token.
C32_Witness ==
  \E c \in Cycles : \E w, v \in Workflows :
    /\ part[c][w].st = "done" /\ part[c][w].totalIndexed = 1
    /\ part[c][v].st = "fetching" /\ part[c][v].totalIndexed = PageSize
    /\ part[c][v].nextToken = PageSize /\ part[c][w].nextToken = NoToken
    /\ index # {}

\* ---------------------------------------------------------------------------
\* The bulk of a page and the stop tests (part_000 191-208, 236-266)

\* Every execution of the page that is not RUNNING has its document in the
\* index.
PageIndexed(executions) ==
  \A i \in DOMAIN executions :
    executions[i].status # "RUNNING" => \E d \in index : d.id = executions[i].name

\* The number of pages whose bulk the loop p is past: all it fetched when it
\* has returned, all but the latest while it awaits a response.
PagesWritten(p) == IF p.st = "done" THEN Len(p.tokens) ELSE Len(p.tokens) - 1

\* C33: every page a loop is past is in the index with all its executions
\* that are not RUNNING, those older than the cutoff too, so a loop that has
\* returned, by whichever stop test, has indexed its last page; a bulk is
\* awaited only in the step in which the response of a page arrived, and the
\* loop leaves the bulk of a page for the next page, its return or its throw.
C33_WriteBeforeStop ==
  /\ [](\A c \in Cycles : \A w \in Workflows :
          part[c][w].st \in {"fetching", "indexing", "done"} =>
            \A j \in 1 .. PagesWritten(part[c][w]) : PageIndexed(FetchedPage(c, w, j)))
  /\ [][\A c \in Cycles : \A w \in Workflows :
          /\ (part'[c][w].st = "indexing" /\ part'[c][w] # part[c][w])
               => part[c][w].st = "fetching" /\ part'[c][w].tokens = part[c][w].tokens
          /\ (part[c][w].st = "indexing" /\ part'[c][w] # part[c][w])
               => \/ part'[c][w].st \in {"done", "failed"}
                     /\ part'[c][w].tokens = part[c][w].tokens
                  \/ part'[c][w].st = "fetching"
                     /\ Len(part'[c][w].tokens) = Len(part[c][w].tokens) + 1]_vars

\* C33 witness: a loop has returned after its first page, which came with a
\* token and holds an execution older than the cutoff; that execution's
\* document is in the index.
C33_Witness ==
  \E c \in Cycles : \E w \in Workflows :
    LET p == part[c][w] IN
      /\ p.st = "done" /\ p.nextToken # NoToken /\ Len(p.tokens) = 1
      /\ p.totalIndexed < MAX_EXECUTIONS_TO_INDEX
      /\ StopsBeforeCutoff(lastIndexedDate[c], source[w][2])
      /\ ~StopsBeforeCutoff(lastIndexedDate[c], source[w][1])
      /\ \E d \in index : d.id = source[w][2].name /\ d.stop_date = source[w][2].stopDate

\* ---------------------------------------------------------------------------
\* Termination and bound of a paging loop (part_000 236-271, 279-282)

\* C34: a loop that awaits a response returns or throws in the end; it calls
\* listExecutions again only in a step in which its totalIndexed grew, so
\* while it runs its totalIndexed is at least the number of its calls but one
\* and below MAX_EXECUTIONS_TO_INDEX; it never makes more than
\* MAX_EXECUTIONS_TO_INDEX calls, and its totalIndexed stays below
\* MAX_EXECUTIONS_TO_INDEX plus the page size.
C34_LoopTerminationAndBound ==
  /\ \A c \in Cycles : \A w \in Workflows :
       (part[c][w].st \in {"fetching", "indexing"})
         ~> (part[c][w].st \notin {"fetching", "indexing"})
  /\ [](\A c \in Cycles : \A w \in Workflows :
          LET p == part[c][w] IN
            /\ Len(p.tokens) <= MAX_EXECUTIONS_TO_INDEX
            /\ p.totalIndexed < MAX_EXECUTIONS_TO_INDEX + PageSize
            /\ p.st \in {"fetching", "indexing"} =>
                 /\ Len(p.tokens) - 1 <= p.totalIndexed
                 /\ p.totalIndexed < MAX_EXECUTIONS_TO_INDEX)
  /\ [][\A c \in Cycles : \A w \in Workflows :
          (part[c][w] # NoPart /\ Len(part'[c][w].tokens) > Len(part[c][w].tokens))
            => part'[c][w].totalIndexed > part[c][w].totalIndexed]_vars

\* C34 witness: a loop has returned after three pages, the last of which took
\* its totalIndexed from below the cap to above it.
C34_Witness ==
  \E c \in Cycles : \E w \in Workflows :
    /\ part[c][w].st = "done" /\ Len(part[c][w].tokens) = 3
    /\ part[c][w].totalIndexed = MAX_EXECUTIONS_TO_INDEX + 1
    /\ Len(source[w]) = CapRecs

\* ---------------------------------------------------------------------------
\* The first run (part_000 149-161, 185-186, 258-265)

\* Cycle c searched the watermark and found none.
FirstRun(c) == esCalls[c].searches = 1 /\ lastIndexedDate[c] = NoDate

\* C35: in a cycle whose search found no watermark, a loop goes on after every
\* page with a token and a terminal execution while it is below the cap,
\* however old the executions are: a loop that has returned stopped after a
\* page without a token, a page without a terminal execution, or with
\* totalIndexed at the cap.
C35_FirstRunWithoutWatermark ==
  \A c \in Cycles : \A w \in Workflows :
    (FirstRun(c) /\ part[c][w].st = "done") =>
      LET last == listExecutions(w, part[c][w].tokens[Len(part[c][w].tokens)]) IN
        \/ last.nextToken = NoToken
        \/ ~HasTerminal(last.executions)
        \/ part[c][w].totalIndexed >= MAX_EXECUTIONS_TO_INDEX

\* C35 witness: in a cycle without a watermark a loop went on after a first
\* page with an execution that stopped long ago, and returned at the cap.
C35_Witness ==
  \E c \in Cycles : \E w \in Workflows :
    /\ FirstRun(c) /\ part[c][w].st = "done"
    /\ Len(part[c][w].tokens) >= 2
    /\ source[w][1].stopDate = 1
    /\ part[c][w].totalIndexed >= MAX_EXECUTIONS_TO_INDEX
    /\ part[c][w].nextToken # NoToken

\* ---------------------------------------------------------------------------
\* A loop that returned at the cap (part_000 242-249, 273-276)

\* The terminal executions of workflow w that have no document in the index.
NotIndexed(w) ==
  { i \in DOMAIN source[w] :
      source[w][i].status # "RUNNING" /\ \A d \in index : d.id # source[w][i].name }

\* C36: a cycle whose loops have all returned, at the cap or not, goes on to
\* saveIndexedDate and writes its start time; and the listExecutions responses
\* of the cycle that follows hold no terminal execution that is without a
\* document: what the capped loop did not fetch, the next cycle does not fetch.
C36_CappedCountsAsSuccess ==
  /\ [](\A c \in Cycles :
          (\A w \in Workflows : part[c][w].st = "done") => cpc[c] # "paging")
  /\ [][\A c \in Cycles :
          (cpc[c] = "saving" /\ cpc'[c] = "returned")
            => watermark' = indexingStartTime[c]]_vars
  /\ [][\A h \in Handlers : \A w \in Workflows :
          (part[<<h, 2>>][w].st = "fetching" /\ part'[<<h, 2>>][w].st # "fetching"
             /\ faults' = faults)
            => \A i \in NotIndexed(w) :
                 \/ i <= part[<<h, 2>>][w].nextToken
                 \/ i > part[<<h, 2>>][w].nextToken + PageSize]_vars

\* C36 witness: the second cycle has returned after a first cycle that wrote
\* the watermark although a loop had returned at the cap; the last execution of
\* that workflow stopped before the cutoff of the second cycle and has no
\* document.
C36_Witness ==
  \E h \in Handlers : \E w \in Workflows :
    /\ cpc[<<h, 2>>] = "returned"
    /\ Len(source[w]) = CapRecs
    /\ CapRecs \in NotIndexed(w)
    /\ StopsBeforeCutoff(lastIndexedDate[<<h, 2>>], source[w][CapRecs])
    /\ Cardinality({ d \in index : d.workflow_id = w }) >= MAX_EXECUTIONS_TO_INDEX

\* ---------------------------------------------------------------------------
\* The handler (part_000 292-318)

\* C37: the second findAndIndexExecutions of an invocation starts only in a
\* step taken when the first has returned, all its loops done and its
\* watermark written; the callback is called once at most: with success in the
\* step in which the second cycle returns, or with an error in the step of the
\* first request that fails, and a later failure of a loop still in flight
\* calls nothing; after an error in the first cycle the second never starts.
C37_HandlerProtocol ==
  /\ [](\A h \in Handlers :
          /\ Len(callback[h]) <= 1
          /\ callback[h] = << "ok" >> <=>
               (cpc[<<h, 1>>] = "returned" /\ cpc[<<h, 2>>] = "returned")
          /\ callback[h] = << "error" >> <=>
               (cpc[<<h, 1>>] = "thrown" \/ cpc[<<h, 2>>] = "thrown")
          /\ cpc[<<h, 1>>] = "thrown" => cpc[<<h, 2>>] = "notStarted"
          /\ cpc[<<h, 2>>] \notin {"notStarted", "off"} => cpc[<<h, 1>>] = "returned")
  /\ [][\A h \in Handlers :
          /\ (cpc[<<h, 2>>] = "notStarted" /\ cpc'[<<h, 2>>] # "notStarted") =>
               /\ cpc[<<h, 1>>] = "returned" /\ saves[<<h, 1>>] = 1
               /\ \A w \in Workflows : part[<<h, 1>>][w].st = "done"
               /\ watermark = indexingStartTime[<<h, 1>>]
          /\ (callback'[h] # callback[h] /\ callback'[h] = << "error" >>) =>
               faults = 0 /\ faults' = 1
          /\ callback[h] # << >> =>
               /\ callback'[h] = callback[h]
               /\ cpc'[<<h, 1>>] = cpc[<<h, 1>>] /\ cpc'[<<h, 2>>] = cpc[<<h, 2>>]]_vars

\* C37 witness: the second cycle threw at the failure of one loop, after the
\* first cycle had returned; the other loop failed later, and the callback
\* was called once.
C37_Witness ==
  \E h \in Handlers :
    /\ cpc[<<h, 1>>] = "returned" /\ cpc[<<h, 2>>] = "thrown"
    /\ \A w \in Workflows : part[<<h, 2>>][w].st = "failed"
    /\ faults = 2
    /\ callback[h] = << "error" >>

\* ---------------------------------------------------------------------------
\* The release of a reclaimed lease

\* Task t ends its function in this step, having lost the lease of its key.
StaleRelease(t) ==
  /\ tpc[t] = "running" /\ tpc'[t] \in {"done", "failed"}
  /\ lease[transactionKey[t]].holder \notin {t, "none"}

\* C38. Stale release is harmless: the release of a run whose lease expired and
\* was reclaimed leaves the lease store as it was; while a lease is unexpired
\* it stays with its holder and keeps its expiry time in every step but the
\* holder's own release, and a call for its key gets Busy, also after the
\* stale release of an earlier holder.
C38_StaleReleaseHarmless ==
  /\ [][\A t \in Tasks : StaleRelease(t) => lease' = lease]_vars
  /\ [][\A k \in Keys :
          (Unexpired(k) /\ now' = now)
            => \/ lease'[k] = lease[k]
               \/ /\ lease'[k] = NoLease
                  /\ tpc[lease[k].holder] = "running"
                  /\ tpc'[lease[k].holder] \in {"done", "failed"}]_vars
  /\ [][\A t, u, v \in Tasks :
          (SameKey(t, u) /\ SameKey(u, v) /\ SameKey(t, v)
             /\ freed[t] = "kept" /\ lease[transactionKey[u]].holder = u
             /\ Unexpired(transactionKey[u]) /\ Called(v))
            => tpc'[v] = "busy" /\ lease' = lease]_vars

\* C38 witness: the first holder released after the second run had reclaimed
\* the lease, the release removed nothing, the second run's lease is in place
\* and unexpired, and a third run for the key got Busy.
C38_Witness ==
  \E t, u, v \in Tasks :
    /\ SameKey(t, u) /\ SameKey(u, v) /\ SameKey(t, v)
    /\ tpc[t] \in {"done", "failed"} /\ freed[t] = "kept"
    /\ tpc[u] = "running" /\ lease[transactionKey[u]].holder = u
    /\ lease[transactionKey[u]].expiresAt = acquiredAt[u] + LOCK_TIMEOUT_MS
    /\ Unexpired(transactionKey[u])
    /\ tpc[v] = "busy"

\* ---------------------------------------------------------------------------
\* Reports under cleanup and concurrent generation (packages/api/lib/ems.js)

\* The retention the cleanup is configured with, in days.
RetentionInDays == 1

\* getExpiredS3Objects(bucket, prefix, retentionInDays): the keys of the
\* objects under the prefix last modified at or before now minus the
\* retention, folders left out.
getExpiredS3Objects(prefix, retentionInDays) ==
  { k \in listS3ObjectsV2(prefix) :
      /\ lastModified[k] <= now - retentionInDays * DayLength
      /\ k[Len(k)] # "/" }

\* The cleanup deletes the objects getExpiredS3Objects returned for the
\* reports prefix.
cleanup ==
  /\ getExpiredS3Objects(ReportsPrefix, RetentionInDays) # {}
  /\ bucket' = bucket \ getExpiredS3Objects(ReportsPrefix, RetentionInDays)
  /\ lastModified' = [ k \in bucket' |-> lastModified[k] ]
  /\ UNCHANGED << apiVars, env, rpc, reportKey, generated, idxVars, leaseVars, queueVars, now >>

NextCleanup ==
  \/ NextReport
  \/ Tick
  \/ cleanup

\* Two report lambdas that may run at the same time, the cleanup and the clock.
SpecCleanup == InitReport(Generations) /\ [][NextCleanup]_vars

\* C39. No report overwrite: the key determineReportKey returns is not the key
\* of an object of the bucket, and a report is stored under a key no object of
\* the bucket has, whatever generations, deletions by the cleanup and
\* concurrent generations came before.
C39_NoReportOverwrite ==
  /\ [][\A g \in Generations :
          (rpc[g].st = "idle" /\ rpc'[g].st = "determined") =>
            reportKey'[g] \notin bucket]_vars
  /\ [][\A g \in Generations :
          (rpc[g].st = "determined" /\ rpc'[g].st = "idle") =>
            reportKey[g] \notin bucket]_vars

\* ---------------------------------------------------------------------------
\* POST of a collection or a provider (packages/api/endpoints)

\* The bodies of the POST requests: a collection has name and version, a
\* provider has id; body stands for the other fields.
Bodies == {1, 2}
CollectionData == [ name : {"", "MOD09"}, version : {"", "006"}, body : Bodies ]
ProviderData == [ id : {"podaac"}, body : Bodies ]
PostData(kind) == IF kind = "collection" THEN CollectionData ELSE ProviderData

\* The primary key of a record: { name, version } of a collection, { id } of
\* a provider.
PrimaryKey(kind, data) ==
  IF kind = "collection" THEN << data.name, data.version >> ELSE << data.id >>

\* model.get(key): the records of the table with the key; none makes get
\* throw RecordDoesNotExist.
get(kind, key) == { d \in tables[kind] : PrimaryKey(kind, d) = key }

\* model.create(data): the tables after the record is put under its key.
create(kind, data) ==
  [tables EXCEPT ![kind] =
     { d \in @ : PrimaryKey(kind, d) # PrimaryKey(kind, data) } \cup {data}]

\* if (!name || !version)
MissingKey(kind, data) ==
  kind = "collection" /\ (data.name = "" \/ data.version = "")

\* The response to a POST whose get found a record: res.boom.badRequest for a
\* collection; for a provider the call of res.boom.badReqest, which is not a
\* function, throws a TypeError inside the try block, and the catch answers
\* res.boom.badImplementation.
AlreadyExists(kind) ==
  IF kind = "collection" THEN "badRequest" ELSE "badImplementation"

\* The response to a POST whose create or addToES was rejected: the outer
\* catch of the collections post answers badImplementation; in the providers
\* post the rejection leaves the catch block and post itself is rejected.
Rejected(kind) ==
  IF kind = "collection" THEN "badImplementation" ELSE "rejected"

\* The responses that are errors.
ErrorResponses == {"badRequest", "badImplementation", "notFound", "rejected"}

\* A post that calls create whatever its get found.
AfterGet_Create(p, found) ==
  [p EXCEPT !.st = "create", !.lookup = IF found THEN "found" ELSE "RecordDoesNotExist"]

\* A post after its get settled: the error response when a record was found,
\* the call of create when get threw RecordDoesNotExist.
AfterGet(p, found) ==
  IF found
  THEN [p EXCEPT !.st = "sent", !.lookup = "found", !.res = AlreadyExists(p.kind)]
  ELSE [p EXCEPT !.st = "create", !.lookup = "RecordDoesNotExist"]

\* post(req, res) is called and runs up to its first await: the get of the
\* record, or the response for a collection without name or version.
Post(r, kind, data) ==
  /\ post[r].st = "idle"
  /\ post' = [post EXCEPT ![r] =
       IF MissingKey(kind, data)
       THEN [ st |-> "sent", kind |-> kind, data |-> data, lookup |-> "none",
              res |-> "notFound" ]
       ELSE [ st |-> "get", kind |-> kind, data |-> data, lookup |-> "none",
              res |-> "none" ]]
  /\ UNCHANGED << tables, testMode, reportVars, queueVars, idxVars, leaseVars, now >>

\* The get of a post settles with a record or with RecordDoesNotExist.
GetReturns(r) ==
  /\ post[r].st = "get"
  /\ post' = [post EXCEPT ![r] =
       AfterGet(@, get(@.kind, PrimaryKey(@.kind, @.data)) # {})]
  /\ UNCHANGED << tables, testMode, reportVars, queueVars, idxVars, leaseVars, now >>

\* The get of a post is rejected with another error: badImplementation.
GetFails(r) ==
  /\ post[r].st = "get"
  /\ post' = [post EXCEPT ![r] = [post[r] EXCEPT !.st = "sent", !.lookup = "error",
                                            !.res = "badImplementation"]]
  /\ UNCHANGED << tables, testMode, reportVars, queueVars, idxVars, leaseVars, now >>

\* The create of a post resolves: the record is stored, and the post answers
\* 'Record saved' or, in test mode, calls addToES first.
CreateReturns(r) ==
  /\ post[r].st = "create"
  /\ tables' = create(post[r].kind, post[r].data)
  /\ post' = [post EXCEPT ![r] =
       IF testMode THEN [post[r] EXCEPT !.st = "addToES"]
       ELSE [post[r] EXCEPT !.st = "sent", !.res = "saved"]]
  /\ UNCHANGED << testMode, reportVars, queueVars, idxVars, leaseVars, now >>

\* The create of a post is rejected: nothing is stored.
CreateFails(r) ==
  /\ post[r].st = "create"
  /\ post' = [post EXCEPT ![r] = [post[r] EXCEPT !.st = "sent", !.res = Rejected(post[r].kind)]]
  /\ UNCHANGED << tables, testMode, reportVars, queueVars, idxVars, leaseVars, now >>

\* addToES resolves and the post answers 'Record saved'.
AddToESReturns(r) ==
  /\ post[r].st = "addToES"
  /\ post' = [post EXCEPT ![r] = [post[r] EXCEPT !.st = "sent", !.res = "saved"]]
  /\ UNCHANGED << tables, testMode, reportVars, queueVars, idxVars, leaseVars, now >>

\* addToES is rejected after the record was stored.
AddToESFails(r) ==
  /\ post[r].st = "addToES"
  /\ post' = [post EXCEPT ![r] = [post[r] EXCEPT !.st = "sent", !.res = Rejected(post[r].kind)]]
  /\ UNCHANGED << tables, testMode, reportVars, queueVars, idxVars, leaseVars, now >>

NextApi ==
  \/ \E r \in Posts : \E kind \in {"collection", "provider"} :
       \E data \in PostData(kind) : Post(r, kind, data)
  \/ \E r \in Posts : GetReturns(r)
  \/ \E r \in Posts : GetFails(r)
  \/ \E r \in Posts : CreateReturns(r)
  \/ \E r \in Posts : CreateFails(r)
  \/ \E r \in Posts : AddToESReturns(r)
  \/ \E r \in Posts : AddToESFails(r)

\* Three POST requests that may be interleaved; each table is empty or holds
\* one record.
InitApi ==
  /\ InitIndexerAndLease({}, Sources(0), {})
  /\ granules = << >>
  /\ queue = NoQueue
  /\ qobs = NoObs
  /\ InitNoReports
  /\ \E cs \in {{}, {[ name |-> "MOD09", version |-> "006", body |-> 0 ]}} :
       \E ps \in {{}, {[ id |-> "podaac", body |-> 0 ]}} :
         tables = [ collection |-> cs, provider |-> ps ]
  /\ post = [ r \in Posts |-> NoPost("idle") ]
  /\ testMode \in BOOLEAN

SpecApi == InitApi /\ [][NextApi]_vars

\* The records stored under the key of the body of request r.
Stored(r) == get(post[r].kind, PrimaryKey(post[r].kind, post[r].data))

====
